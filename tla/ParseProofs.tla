---------------------------- MODULE ParseProofs ----------------------------
(***************************************************************************)
(* Proofs about module Parse, for every content of the files, any depth of *)
(* includes and any number of sections: type correctness, ErrorsKept,      *)
(* NeverNull, EthernetOptions and OwnOptions.                              *)
(***************************************************************************)
EXTENDS Parse, SequenceTheorems, TLAPS

Options == [Keys -> Values \cup {NULL}]

HasErrors(fs) == \E i \in DOMAIN fs : fs[i].errors > 0

-----------------------------------------------------------------------------
(* The inductive invariant.                                                *)

\* Until parse_config returns, an error was reported exactly if some open file
\* has errors; afterwards the result tells.
Counted ==
    /\ result = "none" => (failed <=> HasErrors(files))
    /\ ErrorsKept

\* Only what was written in the section, or nothing.
Own(opts, mean) == \A key \in Keys : opts[key] \in {mean[key], NULL}

\* Within a section its object and staticonfig exist, no other section points at
\* that static_cfg, and it holds what was written: everything for an ethernet.
Current ==
    InSection =>
        /\ section # 0 /\ staticonfig # 0
        /\ sections[section].kind = ctx
        /\ sections[section].staticopts \in {0, staticonfig}
        /\ ctx = "ethernet" => statics[staticonfig] = meant[section]
        /\ Own(statics[staticonfig], meant[section])
        /\ \A i \in DOMAIN sections : i # section => sections[i].staticopts # staticonfig

\* Every section points at a static_cfg that exists.
Pointers == \A i \in DOMAIN sections : sections[i].staticopts \in 0..Len(statics)

IInv == TypeOK /\ Counted /\ NeverNull /\ Pointers /\ Current /\ EthernetOptions /\ OwnOptions

-----------------------------------------------------------------------------
(* Lemmas about the files and the lines.                                   *)

\* A file with one line more read, or with more errors.
LEMMA FileChanges ==
  ASSUME NEW h \in File, NEW n \in Nat
  PROVE  /\ [name |-> h.name, pos |-> h.pos + 1, errors |-> h.errors + n] \in File
         /\ [h EXCEPT !.errors = @ + n] \in File
         /\ [h EXCEPT !.errors = @ + n].errors = h.errors + n
         /\ h.errors \in Nat
<1>1. h = [name |-> h.name, pos |-> h.pos, errors |-> h.errors]
  BY DEF File
<1>2. h.name \in Files /\ h.pos \in Nat \ {0} /\ h.errors \in Nat
  BY DEF File
<1>3. h.pos + 1 \in Nat \ {0} /\ h.errors + n \in Nat
  BY <1>2
<1>4. [h EXCEPT !.errors = @ + n] = [name |-> h.name, pos |-> h.pos, errors |-> h.errors + n]
  BY <1>1
<1> QED BY <1>2, <1>3, <1>4 DEF File

\* What one line more, and n errors, change in the list of files.
LEMMA AdvancedFiles ==
  ASSUME TypeOK, files # << >>, NEW n \in Nat
  PROVE  /\ Advanced(n) \in Seq(File) /\ Len(Advanced(n)) = Len(files)
         /\ HasErrors(Advanced(n)) <=> HasErrors(files) \/ n > 0
<1>1. files \in Seq(File) /\ Top \in 1..Len(files) /\ DOMAIN files = 1..Len(files)
  BY DEF TypeOK, Top
<1>2. files[Top] \in File
  BY <1>1, ElementOfSeq
<1> DEFINE f == [name |-> file.name, pos |-> file.pos + 1, errors |-> file.errors + n]
<1>3. f \in File /\ f.errors = files[Top].errors + n
  BY <1>2, FileChanges DEF file
<1>4. Advanced(n) = [files EXCEPT ![Top] = f]
  BY DEF Advanced
<1> HIDE DEF f
<1>5. /\ Advanced(n) \in Seq(File) /\ Len(Advanced(n)) = Len(files)
      /\ \A j \in 1..Len(files) : Advanced(n)[j] = IF j = Top THEN f ELSE files[j]
  BY <1>1, <1>3, <1>4, ExceptSeq
<1>6. DOMAIN Advanced(n) = 1..Len(files)
  BY <1>5
<1>7. files[Top].errors \in Nat
  BY <1>2 DEF File
<1> QED BY <1>1, <1>3, <1>5, <1>6, <1>7, SMTT(30) DEF HasErrors

\* popfile adds the errors of the file it closes to the file that included it.
LEMMA PopFiles ==
  ASSUME NEW fs \in Seq(File), Len(fs) > 1
  PROVE  /\ Pop(fs) \in Seq(File) /\ Len(Pop(fs)) = Len(fs) - 1
         /\ HasErrors(Pop(fs)) <=> HasErrors(fs)
<1> DEFINE n == Len(fs) - 1
           s == SubSeq(fs, 1, n)
           g == [fs[n] EXCEPT !.errors = @ + fs[n + 1].errors]
<1>1. n \in 1..Len(fs) /\ n + 1 = Len(fs) /\ n + 1 \in 1..Len(fs) /\ DOMAIN fs = 1..Len(fs)
  OBVIOUS
<1>2. fs[n] \in File /\ fs[n + 1] \in File
  BY <1>1, ElementOfSeq
<1>3. g \in File /\ g.errors = fs[n].errors + fs[n + 1].errors
  BY <1>2, FileChanges
<1>4. s \in Seq(File) /\ Len(s) = n /\ \A j \in 1..n : s[j] = fs[j]
  BY <1>1
<1>5. Pop(fs) = [s EXCEPT ![n] = g]
  BY <1>1, <1>4 DEF Pop
<1>6. n \in 1..Len(s)
  BY <1>1, <1>4
<1>7. fs[n].errors \in Nat /\ fs[n + 1].errors \in Nat
  BY <1>2 DEF File
<1> HIDE DEF s, g
<1>8. /\ Pop(fs) \in Seq(File) /\ Len(Pop(fs)) = n
      /\ \A j \in 1..n : Pop(fs)[j] = IF j = n THEN g ELSE fs[j]
  BY <1>3, <1>4, <1>5, <1>6, ExceptSeq
<1>9. DOMAIN Pop(fs) = 1..n
  BY <1>8
<1> HIDE DEF n
<1>10. ASSUME HasErrors(fs) PROVE HasErrors(Pop(fs))
  <2>1. PICK i \in 1..(n + 1) : fs[i].errors > 0
    BY <1>1, <1>10 DEF HasErrors
  <2>2. CASE i \in {n, n + 1}
    <3>1. Pop(fs)[n].errors > 0
      BY <1>1, <1>3, <1>7, <1>8, <2>1, <2>2
    <3> QED BY <1>1, <1>9, <3>1 DEF HasErrors
  <2>3. CASE i \in 1..n /\ i # n
    BY <1>8, <1>9, <2>1, <2>3 DEF HasErrors
  <2> QED BY <1>1, <2>1, <2>2, <2>3
<1>11. ASSUME HasErrors(Pop(fs)) PROVE HasErrors(fs)
  <2>1. PICK i \in 1..n : Pop(fs)[i].errors > 0
    BY <1>9, <1>11 DEF HasErrors
  <2>2. CASE i = n
    <3>1. fs[n].errors > 0 \/ fs[n + 1].errors > 0
      BY <1>3, <1>7, <1>8, <2>1, <2>2
    <3> QED BY <1>1, <3>1 DEF HasErrors
  <2>3. CASE i # n
    BY <1>1, <1>8, <2>1, <2>3 DEF HasErrors
  <2> QED BY <2>2, <2>3
<1> QED BY <1>1, <1>8, <1>10, <1>11 DEF n

\* The line to be read, and its parts.
LEMMA LineTyped ==
  ASSUME TypeOK, HasLine
  PROVE  /\ files # << >>
         /\ line.k = "include" => line.a \in Files
         /\ line.k = "set" => line.a \in Macros /\ line.v \in Values
         /\ line.k = "static" => line.a \in Keys /\ line.v \in Values
         /\ line.k = "use" => line.a \in Keys /\ line.v \in Macros
<1>1. files \in Seq(File) /\ files # << >> /\ Top \in 1..Len(files)
  BY DEF TypeOK, HasLine, Top
<1>2. file \in File
  BY <1>1, ElementOfSeq DEF file
<1>3. text[file.name] \in Seq(Line) /\ file.pos \in 1..Len(text[file.name])
  BY <1>2 DEF TypeOK, File, HasLine
<1>4. line \in Line
  BY <1>3, ElementOfSeq DEF line
<1>5. \A l \in Line :
         /\ l.k = "include" => l.a \in Files
         /\ l.k = "set" => l.a \in Macros /\ l.v \in Values
         /\ l.k = "static" => l.a \in Keys /\ l.v \in Values
         /\ l.k = "use" => l.a \in Keys /\ l.v \in Macros
  BY DEF Line
<1> QED BY <1>1, <1>4, <1>5

\* A file that is opened has its first line to be read, and no errors.
LEMMA OpenedFile ==
  ASSUME NEW f \in Files
  PROVE  Opened(f) \in File /\ Opened(f).errors = 0
BY DEF Opened, File

\* A file more has no errors yet.
LEMMA PushFiles ==
  ASSUME NEW fs \in Seq(File), NEW f \in Files
  PROVE  /\ Append(fs, Opened(f)) \in Seq(File)
         /\ HasErrors(Append(fs, Opened(f))) <=> HasErrors(fs)
<1> DEFINE g == Opened(f)
<1>1. g \in File /\ g.errors = 0
  BY OpenedFile
<1> HIDE DEF g
<1>2. /\ Append(fs, g) \in Seq(File) /\ DOMAIN Append(fs, g) = 1..(Len(fs) + 1)
      /\ DOMAIN fs = 1..Len(fs) /\ Len(fs) \in Nat
      /\ \A i \in 1..Len(fs) : Append(fs, g)[i] = fs[i]
      /\ Append(fs, g)[Len(fs) + 1] = g
  BY <1>1
<1>3. HasErrors(Append(fs, g)) <=> HasErrors(fs)
  BY <1>1, <1>2 DEF HasErrors
<1> QED BY <1>2, <1>3 DEF g

-----------------------------------------------------------------------------
(* The files, the macros and the errors.                                   *)

\* The part of TypeOK that is not about the objects.
FilesOK ==
    /\ text \in [Files -> Seq(Line)] /\ files \in Seq(File)
    /\ ctx \in {"top", "network", "ethernet", "wireless", "discard"}
    /\ syms \in [Macros -> Values \cup {NULL}]
    /\ result \in {"none", "conf", "NULL", "crash"} /\ failed \in BOOLEAN

\* Lines that are read without an error.
LEMMA GoodLine ==
  ASSUME TypeOK, Counted, HasLine, files' = Advanced(0), UNCHANGED failed, result' \in {result, "crash"}
  PROVE  files' \in Seq(File) /\ Counted'
<1>1. files' \in Seq(File) /\ (HasErrors(files') <=> HasErrors(files))
  BY LineTyped, AdvancedFiles
<1>2. result = "none"
  BY DEF HasLine
<1> QED BY <1>1, <1>2 DEF Counted, ErrorsKept

\* Every step keeps the files and the macros in their types and the errors counted.
LEMMA FilesStep == TypeOK /\ Counted /\ [Next]_vars => FilesOK' /\ Counted'
<1> SUFFICES ASSUME TypeOK, Counted, [Next]_vars PROVE FilesOK' /\ Counted'
  OBVIOUS
<1>0. FilesOK
  BY DEF TypeOK, FilesOK
<1> USE DEF InSection
<1>1. CASE ParseConfig
  <2>1. CASE files' = << Opened(Main) >> /\ UNCHANGED <<result, failed>>
    <3>1. files' \in Seq(File) /\ ~HasErrors(files')
      BY <2>1, OpenedFile, ParseAssumption DEF HasErrors
    <3>2. ~HasErrors(files)
      BY <1>1 DEF ParseConfig, HasErrors
    <3> QED BY <1>0, <1>1, <2>1, <3>1, <3>2 DEF ParseConfig, FilesOK, Counted, ErrorsKept
  <2>2. CASE result' = "NULL" /\ failed' = TRUE /\ UNCHANGED files
    BY <1>0, <1>1, <2>2 DEF ParseConfig, FilesOK, Counted, ErrorsKept
  <2> QED BY <1>1, <2>1, <2>2 DEF ParseConfig
<1>2. CASE EndOfInclude
  <2>1. files' \in Seq(File) /\ (HasErrors(files') <=> HasErrors(files))
    BY <1>0, <1>2, PopFiles DEF EndOfInclude, FilesOK, Top
  <2> QED BY <1>0, <1>2, <2>1 DEF EndOfInclude, FilesOK, Counted, ErrorsKept
<1>3. CASE Quote
  <2>1. files # << >> /\ Len(files) > 1 /\ result = "none"
    BY <1>3, LineTyped DEF Quote, AtQuote, HasLine, Top
  <2>2. Advanced(1) \in Seq(File) /\ Len(Advanced(1)) > 1 /\ HasErrors(Advanced(1))
    BY <2>1, AdvancedFiles
  <2>3. files' \in Seq(File) /\ HasErrors(files')
    BY <1>3, <2>2, PopFiles DEF Quote
  <2> QED BY <1>0, <1>3, <2>1, <2>3 DEF Quote, FilesOK, Counted, ErrorsKept
<1>4. CASE EndOfMain
  <2> DEFINE bad == AtQuote \/ ctx # "top"
             n == IF bad THEN file.errors + 1 ELSE file.errors
  <2>1. /\ result' = IF n = 0 THEN "conf" ELSE "NULL"
        /\ failed' = (failed \/ bad)
        /\ files' = [files EXCEPT ![1].errors = n]
        /\ result = "none" /\ Top = 1 /\ UNCHANGED <<text, ctx, syms>>
    BY <1>4 DEF EndOfMain
  <2>2. files \in Seq(File) /\ 1 \in 1..Len(files) /\ Len(files) = 1 /\ file = files[1]
    BY <1>0, <2>1 DEF FilesOK, Top, file
  <2>3. files[1] \in File /\ files[1].errors \in Nat
    BY <2>2, ElementOfSeq, FileChanges
  <2>4. n \in Nat /\ (n = 0 <=> ~bad /\ ~(file.errors > 0))
    BY <2>2, <2>3
  <2>5. HasErrors(files) <=> file.errors > 0
    BY <2>2 DEF HasErrors
  <2> HIDE DEF n
  <2>6. [files[1] EXCEPT !.errors = n] \in File
    BY <2>3, <2>4 DEF File
  <2>7. files' = [files EXCEPT ![1] = [files[1] EXCEPT !.errors = n]]
    BY <2>1
  <2>8. files' \in Seq(File)
    BY <2>2, <2>6, <2>7, ExceptSeq
  <2>9. n = 0 <=> ~failed'
    BY <2>1, <2>4, <2>5 DEF Counted
  <2>10. failed' \in BOOLEAN
    BY <1>0, <2>1 DEF FilesOK
  <2>11. Counted'
    BY <2>1, <2>9 DEF Counted, ErrorsKept
  <2> QED BY <1>0, <2>1, <2>8, <2>10, <2>11 DEF FilesOK
<1>5. CASE Include
  <2>1. line.a \in Files /\ files # << >> /\ result = "none"
    BY <1>5, LineTyped DEF Include, HasLine
  <2>2. Advanced(0) \in Seq(File) /\ (HasErrors(Advanced(0)) <=> HasErrors(files))
    BY <2>1, AdvancedFiles
  <2>3. files' \in Seq(File) /\ (HasErrors(files') <=> HasErrors(files))
    BY <1>5, <2>1, <2>2, PushFiles DEF Include
  <2> QED BY <1>0, <1>5, <2>3 DEF Include, FilesOK, Counted, ErrorsKept
<1>6. CASE ErrorLine
  <2>1. files # << >> /\ result = "none"
    BY <1>6, LineTyped DEF ErrorLine, HasLine
  <2>2. files' \in Seq(File) /\ HasErrors(files')
    BY <1>6, <2>1, AdvancedFiles DEF ErrorLine
  <2> QED BY <1>0, <1>6, <2>1, <2>2 DEF ErrorLine, FilesOK, Counted, ErrorsKept
<1>7. CASE SetLine
  <2>1. files' \in Seq(File) /\ Counted'
    BY <1>7, GoodLine DEF SetLine
  <2>2. syms' \in [Macros -> Values \cup {NULL}]
    BY <1>0, <1>7, LineTyped DEF SetLine, FilesOK
  <2> QED BY <1>0, <1>7, <2>1, <2>2 DEF SetLine, FilesOK
<1>8. CASE Network \/ OpenSection \/ CloseBlock \/ DhcpYes \/ DhcpNo \/ StaticOption
  <2>1. /\ HasLine /\ files' = Advanced(0) /\ UNCHANGED <<text, syms, failed>>
        /\ result' \in {result, "crash"}
        /\ ctx' \in {"top", "network", "ethernet", "wireless", ctx}
    BY <1>8 DEF Network, OpenSection, CloseBlock, DhcpYes, DhcpNo, StaticOption
  <2>2. files' \in Seq(File) /\ Counted'
    BY <2>1, GoodLine
  <2> QED BY <1>0, <2>1, <2>2 DEF FilesOK
<1>9. CASE UNCHANGED vars
  BY <1>0, <1>9 DEF vars, FilesOK, Counted, ErrorsKept
<1> QED BY <1>1, <1>2, <1>3, <1>4, <1>5, <1>6, <1>7, <1>8, <1>9 DEF Next, Step, Returned

-----------------------------------------------------------------------------
(* The sections and their static options.                                  *)

\* The part of TypeOK that is about the objects.
ObjectsOK ==
    /\ sections \in Seq(Section) /\ section \in 0..Len(sections)
    /\ statics \in Seq(Options) /\ staticonfig \in 0..Len(statics)
    /\ meant \in Seq(Options) /\ Len(meant) = Len(sections)

Objects == ObjectsOK /\ Pointers /\ Current /\ EthernetOptions /\ OwnOptions

\* A static_cfg without options.
LEMMA NoOptionsTyped == NoOptions \in Options /\ \A key \in Keys : NoOptions[key] = NULL
BY DEF NoOptions, Options

\* The domains of the three sequences are intervals.
LEMMA ObjectDomains ==
  ASSUME ObjectsOK
  PROVE  /\ DOMAIN sections = 1..Len(sections) /\ Len(sections) \in Nat
         /\ DOMAIN statics = 1..Len(statics) /\ Len(statics) \in Nat
         /\ DOMAIN meant = 1..Len(sections)
         /\ \A i \in DOMAIN sections : sections[i] \in Section /\ meant[i] \in Options
         /\ \A i \in DOMAIN statics : statics[i] \in Options
BY DEF ObjectsOK

\* An append, element by element.
LEMMA Appended ==
  ASSUME NEW S, NEW s \in Seq(S), NEW e \in S
  PROVE  /\ Append(s, e) \in Seq(S) /\ Len(Append(s, e)) = Len(s) + 1
         /\ DOMAIN Append(s, e) = 1..(Len(s) + 1)
         /\ \A i \in 1..Len(s) : Append(s, e)[i] = s[i]
         /\ Append(s, e)[Len(s) + 1] = e
OBVIOUS

\* Outside of a section only Current depends on ctx.
LEMMA SameObjects ==
  ASSUME Objects, UNCHANGED <<sections, statics, meant>>, section' \in {0, section},
         staticonfig' \in {0, staticonfig},
         \/ ctx' \notin {"ethernet", "wireless"}
         \/ UNCHANGED <<ctx, section, staticonfig>>
  PROVE  Objects'
<1>1. ObjectsOK'
  BY DEF Objects, ObjectsOK
<1>2. Pointers' /\ EthernetOptions' /\ OwnOptions'
  BY DEF Objects, Pointers, EthernetOptions, OwnOptions
<1>3. Current'
  BY DEF Objects, Current, InSection, Own
<1> QED BY <1>1, <1>2, <1>3 DEF Objects

\* A section that is opened points at a static_cfg nobody else has.
LEMMA OpenObjects ==
  ASSUME Objects, OpenSection PROVE Objects'
<1> DEFINE T == Len(statics)
           S == Len(sections)
           new == [kind |-> ctx', isdhcp |-> FALSE, staticopts |-> T + 1]
<1>0. ObjectsOK /\ Pointers /\ EthernetOptions /\ OwnOptions
  BY DEF Objects
<1>1. /\ statics' = Append(statics, NoOptions) /\ meant' = Append(meant, NoOptions)
      /\ ctx' \in {"ethernet", "wireless"}
    BY DEF OpenSection, CallocStatic
<1>2. /\ statics' \in Seq(Options) /\ Len(statics') = T + 1 /\ DOMAIN statics' = 1..(T + 1)
      /\ \A i \in 1..T : statics'[i] = statics[i]
      /\ statics'[T + 1] = NoOptions
  BY <1>0, <1>1, NoOptionsTyped, Appended DEF ObjectsOK
<1>3. staticonfig' = T + 1 /\ sections' = Append(sections, new)
  BY <1>2 DEF OpenSection
<1>4. new \in Section
  BY <1>0, <1>1 DEF Section, ObjectsOK
<1>5. /\ sections' \in Seq(Section) /\ Len(sections') = S + 1 /\ DOMAIN sections' = 1..(S + 1)
      /\ \A i \in 1..S : sections'[i] = sections[i]
      /\ sections'[S + 1] = new
  BY <1>0, <1>3, <1>4, Appended DEF ObjectsOK
<1>6. /\ meant' \in Seq(Options) /\ Len(meant') = S + 1
      /\ \A i \in 1..S : meant'[i] = meant[i]
      /\ meant'[S + 1] = NoOptions
  BY <1>0, <1>1, NoOptionsTyped, Appended DEF ObjectsOK
<1>7. section' = S + 1
  BY <1>5 DEF OpenSection
<1>8. T \in Nat /\ S \in Nat /\ DOMAIN sections = 1..S
  BY <1>0, ObjectDomains
<1>9. new.kind = ctx' /\ new.isdhcp = FALSE /\ new.staticopts = T + 1
  OBVIOUS
<1>10. \A i \in 1..S : sections[i].staticopts \in 0..T
  BY <1>0, <1>8 DEF Pointers
<1> HIDE DEF T, S, new
<1>11. ObjectsOK'
  BY <1>2, <1>3, <1>5, <1>6, <1>7, <1>8 DEF ObjectsOK
<1>12. Pointers'
  BY <1>2, <1>5, <1>8, <1>9, <1>10 DEF Pointers
<1>13. Own(NoOptions, NoOptions)
  BY DEF Own
<1>14. Current'
  <2>1. \A i \in 1..S : sections'[i].staticopts # T + 1
    BY <1>5, <1>8, <1>10
  <2> QED BY <1>2, <1>3, <1>5, <1>6, <1>7, <1>8, <1>9, <1>13, <2>1 DEF Current
<1>15. EthernetOptions'
  BY <1>0, <1>2, <1>5, <1>6, <1>8, <1>9, <1>10 DEF EthernetOptions
<1>16. OwnOptions'
  <2> SUFFICES ASSUME NEW i \in 1..(S + 1), sections'[i].staticopts # 0, NEW key \in Keys
               PROVE  statics'[sections'[i].staticopts][key] \in {meant'[i][key], NULL}
    BY <1>5 DEF OwnOptions
  <2>1. CASE i \in 1..S
    <3>1. sections'[i] = sections[i] /\ meant'[i] = meant[i]
      BY <1>5, <1>6, <2>1
    <3>2. statics'[sections[i].staticopts] = statics[sections[i].staticopts]
      BY <1>2, <1>8, <1>10, <2>1, <3>1
    <3> QED BY <1>0, <1>8, <2>1, <3>1, <3>2 DEF OwnOptions
  <2>2. CASE i = S + 1
    BY <1>2, <1>5, <1>9, <2>2, NoOptionsTyped
  <2> QED BY <1>8, <2>1, <2>2
<1> QED BY <1>11, <1>12, <1>14, <1>15, <1>16 DEF Objects

\* What SetDhcp changes.
LEMMA DhcpSet ==
  ASSUME ObjectsOK, section # 0, NEW yes \in BOOLEAN, NEW opts \in Nat, SetDhcp(yes, opts)
  PROVE  /\ sections' \in Seq(Section) /\ Len(sections') = Len(sections)
         /\ DOMAIN sections' = DOMAIN sections
         /\ sections'[section].kind = sections[section].kind
         /\ sections'[section].isdhcp = yes
         /\ sections'[section].staticopts = opts
         /\ \A i \in DOMAIN sections : i # section => sections'[i] = sections[i]
<1> DEFINE new == [kind |-> sections[section].kind, isdhcp |-> yes, staticopts |-> opts]
<1>1. section \in 1..Len(sections) /\ sections \in Seq(Section)
  BY DEF ObjectsOK
<1>2. sections[section] \in Section
  BY <1>1, ElementOfSeq
<1>3. new \in Section
  BY <1>2 DEF Section
<1>4. sections' = [sections EXCEPT ![section] = new]
  BY DEF SetDhcp
<1> HIDE DEF new
<1>5. /\ sections' \in Seq(Section) /\ Len(sections') = Len(sections)
      /\ \A j \in 1..Len(sections) : sections'[j] = IF j = section THEN new ELSE sections[j]
  BY <1>1, <1>3, <1>4, ExceptSeq
<1>6. DOMAIN sections' = 1..Len(sections) /\ DOMAIN sections = 1..Len(sections)
  BY <1>1, <1>5
<1> QED BY <1>1, <1>5, <1>6 DEF new

\* dhcp yes keeps staticonfig, so a later dhcp no finds the options again.
LEMMA DhcpYesObjects ==
  ASSUME Objects, DhcpYes PROVE Objects'
<1>0. ObjectsOK /\ Pointers /\ Current /\ EthernetOptions /\ OwnOptions /\ InSection
  BY DEF Objects, DhcpYes, Accepted
<1>1. section # 0 /\ section \in DOMAIN sections /\ sections[section] \in Section
  BY <1>0, ObjectDomains DEF Current, ObjectsOK
<1>2. DhcpYesOpts \in {0, sections[section].staticopts} /\ (ctx = "ethernet" => DhcpYesOpts = 0)
  BY DEF DhcpYesOpts
<1>3. DhcpYesOpts \in Nat
  BY <1>1, <1>2 DEF Section
<1> HIDE DEF DhcpYesOpts
<1>4. /\ sections' \in Seq(Section) /\ Len(sections') = Len(sections)
      /\ DOMAIN sections' = DOMAIN sections
      /\ sections'[section].kind = sections[section].kind
      /\ sections'[section].isdhcp = TRUE
      /\ sections'[section].staticopts = DhcpYesOpts
      /\ \A i \in DOMAIN sections : i # section => sections'[i] = sections[i]
  BY <1>0, <1>1, <1>3, DhcpSet DEF DhcpYes
<1>5. UNCHANGED <<ctx, statics, section, staticonfig, meant>>
  BY DEF DhcpYes
<1>6. ObjectsOK'
  BY <1>0, <1>4, <1>5 DEF ObjectsOK
<1>7. Pointers'
  BY <1>0, <1>1, <1>2, <1>4, <1>5, ObjectDomains DEF Pointers
<1>8. Current'
  BY <1>0, <1>2, <1>4, <1>5 DEF Current, InSection, Own
<1>9. EthernetOptions'
  BY <1>0, <1>2, <1>4, <1>5 DEF EthernetOptions, Current
<1>10. OwnOptions'
  BY <1>0, <1>1, <1>2, <1>4, <1>5 DEF OwnOptions
<1> QED BY <1>6, <1>7, <1>8, <1>9, <1>10 DEF Objects

\* dhcp no gives an ethernet its options back and a wireless a new static_cfg.
LEMMA DhcpNoObjects ==
  ASSUME Objects, DhcpNo PROVE Objects'
<1>0. ObjectsOK /\ Pointers /\ Current /\ EthernetOptions /\ OwnOptions /\ InSection
  BY DEF Objects, DhcpNo, Accepted
<1>1. section # 0 /\ staticonfig # 0 /\ section \in DOMAIN sections
  BY <1>0, ObjectDomains DEF Current, ObjectsOK
<1>2. UNCHANGED <<ctx, section, meant>>
  BY DEF DhcpNo
<1>3. Len(statics) \in Nat /\ \A i \in DOMAIN sections : sections[i].staticopts \in 0..Len(statics)
  BY <1>0, ObjectDomains DEF Pointers
<1>4. CASE ctx = "ethernet" /\ UNCHANGED <<statics, staticonfig>>
  <2>1. staticonfig' \in Nat /\ staticonfig' = staticonfig /\ staticonfig \in 0..Len(statics)
    BY <1>0, <1>4 DEF ObjectsOK
  <2>2. /\ sections' \in Seq(Section) /\ Len(sections') = Len(sections)
        /\ DOMAIN sections' = DOMAIN sections
        /\ sections'[section].kind = sections[section].kind
        /\ sections'[section].isdhcp = FALSE
        /\ sections'[section].staticopts = staticonfig
        /\ \A i \in DOMAIN sections : i # section => sections'[i] = sections[i]
    BY <1>0, <1>1, <2>1, DhcpSet DEF DhcpNo
  <2>3. ObjectsOK'
    BY <1>0, <1>2, <1>4, <2>2 DEF ObjectsOK
  <2>4. Pointers'
    BY <1>3, <1>4, <2>1, <2>2 DEF Pointers
  <2>5. Current'
    BY <1>0, <1>2, <1>4, <2>2 DEF Current, InSection, Own
  <2>6. EthernetOptions'
    BY <1>0, <1>1, <1>2, <1>4, <2>2 DEF EthernetOptions, Current
  <2>7. OwnOptions'
    BY <1>0, <1>1, <1>2, <1>4, <2>2 DEF OwnOptions, Current, Own
  <2> QED BY <2>3, <2>4, <2>5, <2>6, <2>7 DEF Objects
<1>5. CASE /\ ctx = "wireless"
           /\ statics' = Append(statics, NoOptions) /\ staticonfig' = Len(statics')
  <2> DEFINE T == Len(statics)
  <2>1. /\ statics' \in Seq(Options) /\ Len(statics') = T + 1
        /\ \A i \in 1..T : statics'[i] = statics[i]
        /\ statics'[T + 1] = NoOptions
    BY <1>0, <1>5, NoOptionsTyped, Appended DEF ObjectsOK
  <2>2. staticonfig' = T + 1 /\ T \in Nat /\ staticonfig' \in Nat
    BY <1>3, <1>5, <2>1
  <2> HIDE DEF T
  <2>3. /\ sections' \in Seq(Section) /\ Len(sections') = Len(sections)
        /\ DOMAIN sections' = DOMAIN sections
        /\ sections'[section].kind = sections[section].kind
        /\ sections'[section].isdhcp = FALSE
        /\ sections'[section].staticopts = T + 1
        /\ \A i \in DOMAIN sections : i # section => sections'[i] = sections[i]
    BY <1>0, <1>1, <2>2, DhcpSet DEF DhcpNo
  <2>4. \A i \in DOMAIN sections : sections[i].staticopts \in 0..T
    BY <1>3 DEF T
  <2>5. ObjectsOK'
    BY <1>0, <1>2, <2>1, <2>2, <2>3 DEF ObjectsOK
  <2>6. Pointers'
    BY <2>1, <2>2, <2>3, <2>4 DEF Pointers
  <2>7. sections[section].kind = "wireless"
    BY <1>0, <1>5 DEF Current
  <2>8. Own(statics'[T + 1], meant'[section])
    BY <2>1, NoOptionsTyped DEF Own
  <2>9. Current'
    <3>1. \A i \in DOMAIN sections' : i # section => sections'[i].staticopts # T + 1
      BY <2>2, <2>3, <2>4
    <3>2. (ctx = "wireless")'
      BY <1>2, <1>5
    <3> QED BY <1>1, <1>2, <2>2, <2>3, <2>7, <2>8, <3>1, <3>2 DEF Current
  <2>10. ASSUME NEW i \in DOMAIN sections, i # section, sections[i].staticopts # 0
         PROVE  statics'[sections[i].staticopts] = statics[sections[i].staticopts]
    BY <2>1, <2>2, <2>4, <2>10
  <2>11. EthernetOptions'
    BY <1>0, <1>2, <2>3, <2>7, <2>10 DEF EthernetOptions
  <2>12. OwnOptions'
    BY <1>0, <1>2, <2>3, <2>8, <2>10 DEF OwnOptions, Own
  <2> QED BY <2>5, <2>6, <2>9, <2>11, <2>12 DEF Objects
<1> QED BY <1>1, <1>4, <1>5, <1>0 DEF DhcpNo, InSection

\* A static option is written where staticonfig points: into the static_cfg of
\* the open section and of no other.
LEMMA OptionObjects ==
  ASSUME TypeOK, Objects, StaticOption PROVE Objects' /\ UNCHANGED result
<1>0. ObjectsOK /\ Pointers /\ Current /\ EthernetOptions /\ OwnOptions /\ InSection
  BY DEF Objects, StaticOption, Accepted
<1>1. /\ section \in 1..Len(sections) /\ section \in 1..Len(meant) /\ section \in DOMAIN sections
      /\ staticonfig \in 1..Len(statics)
  BY <1>0, ObjectDomains DEF Current, ObjectsOK
<1> DEFINE v == IF line.k = "use" THEN syms[line.v] ELSE line.v
           opts == [statics[staticonfig] EXCEPT ![line.a] = v]
           mean == [meant[section] EXCEPT ![line.a] = v]
<1>2. /\ statics' = [statics EXCEPT ![staticonfig] = opts]
      /\ meant' = [meant EXCEPT ![section] = mean]
      /\ UNCHANGED <<ctx, sections, section, staticonfig, result>>
  BY <1>1 DEF StaticOption
<1>3. line.a \in Keys /\ v \in Values \cup {NULL}
  BY LineTyped DEF StaticOption, TypeOK
<1>4. statics[staticonfig] \in Options /\ meant[section] \in Options
  BY <1>0, <1>1, ElementOfSeq DEF ObjectsOK
<1> HIDE DEF v
<1>5. opts \in Options /\ mean \in Options
  BY <1>3, <1>4 DEF Options
<1>6. Own(opts, mean)
  <2>1. Own(statics[staticonfig], meant[section])
    BY <1>0 DEF Current
  <2> QED BY <1>4, <2>1 DEF Own, Options
<1>7. ctx = "ethernet" => opts = mean
  BY <1>0 DEF Current
<1> HIDE DEF opts, mean
<1>8. /\ statics' \in Seq(Options) /\ Len(statics') = Len(statics)
      /\ \A j \in 1..Len(statics) : statics'[j] = IF j = staticonfig THEN opts ELSE statics[j]
  BY <1>0, <1>1, <1>2, <1>5, ExceptSeq DEF ObjectsOK
<1>9. /\ meant' \in Seq(Options) /\ Len(meant') = Len(meant)
      /\ \A j \in 1..Len(meant) : meant'[j] = IF j = section THEN mean ELSE meant[j]
  BY <1>0, <1>1, <1>2, <1>5, ExceptSeq DEF ObjectsOK
<1>10. statics'[staticonfig] = opts /\ meant'[section] = mean
  BY <1>1, <1>8, <1>9
<1>11. ASSUME NEW i \in DOMAIN sections, i # section, sections[i].staticopts # 0
       PROVE  /\ statics'[sections[i].staticopts] = statics[sections[i].staticopts]
              /\ meant'[i] = meant[i]
  <2>1. sections[i].staticopts \in 1..Len(statics) /\ sections[i].staticopts # staticonfig
    BY <1>0, <1>11, ObjectDomains DEF Pointers, Current
  <2>2. i \in 1..Len(meant)
    BY <1>0, ObjectDomains DEF ObjectsOK
  <2> QED BY <1>8, <1>9, <1>11, <2>1, <2>2
<1>12. ObjectsOK'
  BY <1>0, <1>2, <1>8, <1>9 DEF ObjectsOK
<1>13. Pointers'
  BY <1>0, <1>2, <1>8 DEF Pointers
<1>14. Current'
  BY <1>0, <1>2, <1>6, <1>7, <1>10 DEF Current, InSection
<1>15. /\ sections[section].kind = ctx
       /\ sections[section].staticopts \in {0, staticonfig}
  BY <1>0 DEF Current
<1>16. EthernetOptions'
  <2> SUFFICES ASSUME NEW i \in DOMAIN sections, sections[i].kind = "ethernet"
               PROVE  IF sections[i].isdhcp THEN sections[i].staticopts = 0
                         ELSE sections[i].staticopts # 0 /\ statics'[sections[i].staticopts] = meant'[i]
    BY <1>2 DEF EthernetOptions
  <2>1. IF sections[i].isdhcp THEN sections[i].staticopts = 0
           ELSE sections[i].staticopts # 0 /\ statics[sections[i].staticopts] = meant[i]
    BY <1>0 DEF EthernetOptions
  <2> QED BY <1>7, <1>10, <1>11, <1>15, <2>1
<1>17. OwnOptions'
  <2> SUFFICES ASSUME NEW i \in DOMAIN sections, sections[i].staticopts # 0, NEW key \in Keys
               PROVE  statics'[sections[i].staticopts][key] \in {meant'[i][key], NULL}
    BY <1>2 DEF OwnOptions
  <2>1. CASE i = section
    BY <1>6, <1>10, <1>15, <2>1 DEF Own
  <2>2. CASE i # section
    BY <1>0, <1>11, <2>2 DEF OwnOptions
  <2> QED BY <2>1, <2>2
<1> QED BY <1>2, <1>12, <1>13, <1>14, <1>16, <1>17 DEF Objects

\* Every step keeps the sections, their options and staticonfig consistent.
LEMMA ObjectsStep == TypeOK /\ NeverNull /\ Objects /\ [Next]_vars => Objects' /\ NeverNull'
<1> SUFFICES ASSUME TypeOK, NeverNull, Objects, [Next]_vars PROVE Objects' /\ NeverNull'
  OBVIOUS
<1> USE DEF NeverNull, objects
<1>1. CASE ParseConfig \/ EndOfInclude \/ Quote \/ EndOfMain \/ Include
  <2>1. /\ UNCHANGED objects /\ ctx' \in {ctx, "top"} /\ result' \in {result, "conf", "NULL"}
    BY <1>1 DEF ParseConfig, EndOfInclude, Quote, EndOfMain, Include
  <2> QED BY <2>1, SameObjects
<1>2. CASE ErrorLine \/ SetLine \/ Network
  <2>1. UNCHANGED <<objects, result>> /\ ctx' \in {ctx, "top", "network", "discard"}
    BY <1>2 DEF ErrorLine, SetLine, Network
  <2> QED BY <2>1, SameObjects
<1>3. CASE OpenSection
  BY <1>3, OpenObjects DEF OpenSection
<1>4. CASE CloseBlock
  <2>1. /\ UNCHANGED <<sections, statics, meant, result>> /\ section' \in {0, section}
        /\ staticonfig' \in {0, staticonfig} /\ ctx' \in {"network", "top"}
    BY <1>4 DEF CloseBlock, AfterBlock
  <2> QED BY <2>1, SameObjects
<1>5. CASE DhcpYes
  BY <1>5, DhcpYesObjects DEF DhcpYes
<1>6. CASE DhcpNo
  BY <1>6, DhcpNoObjects DEF DhcpNo
<1>7. CASE StaticOption
  BY <1>7, OptionObjects
<1>8. CASE UNCHANGED vars
  BY <1>8, SameObjects DEF vars
<1> QED BY <1>1, <1>2, <1>3, <1>4, <1>5, <1>6, <1>7, <1>8 DEF Next, Step, Returned

-----------------------------------------------------------------------------
(* The theorems.                                                           *)

\* The inductive invariant holds in every reachable state.
THEOREM Invariance == Spec => []IInv
<1>1. Init => IInv
  <2> SUFFICES ASSUME Init PROVE IInv
    OBVIOUS
  <2>1. TypeOK
    <3>1. text \in [Files -> Seq(Line)] /\ syms \in [Macros -> Values \cup {NULL}]
      BY ParseAssumption DEF Init
    <3>2. files \in Seq(File) /\ section \in 0..Len(sections)
      BY DEF Init
    <3>3. failed \in BOOLEAN
      BY DEF Init
    <3>4. /\ sections \in Seq(Section) /\ staticonfig \in 0..Len(statics)
          /\ statics \in Seq([Keys -> Values \cup {NULL}]) /\ meant \in Seq([Keys -> Values \cup {NULL}])
          /\ Len(meant) = Len(sections)
      BY DEF Init
    <3> QED BY <3>1, <3>2, <3>3, <3>4 DEF Init, TypeOK
  <2>2. Counted /\ NeverNull
    BY DEF Init, Counted, ErrorsKept, HasErrors, NeverNull
  <2>3. Pointers /\ Current /\ EthernetOptions /\ OwnOptions
    BY DEF Init, Pointers, Current, InSection, EthernetOptions, OwnOptions
  <2> QED BY <2>1, <2>2, <2>3 DEF IInv
<1>2. TypeOK <=> FilesOK /\ ObjectsOK
  BY DEF TypeOK, FilesOK, ObjectsOK, Options
<1>3. TypeOK' <=> FilesOK' /\ ObjectsOK'
  BY DEF TypeOK, FilesOK, ObjectsOK, Options
<1>4. IInv /\ [Next]_vars => IInv'
  BY <1>2, <1>3, FilesStep, ObjectsStep DEF IInv, Objects
<1> QED BY <1>1, <1>4, PTL DEF Spec

\* The parser's globals and what it allocates keep their types.
THEOREM TypeCorrect == Spec => []TypeOK
<1>1. IInv => TypeOK
  BY DEF IInv
<1> QED BY Invariance, <1>1, PTL

\* parse_config returns a configuration exactly when nothing was in error, however
\* deep the file with the error was included.
THEOREM NoErrorForgotten == Spec => []ErrorsKept
<1>1. IInv => ErrorsKept
  BY DEF IInv, Counted
<1> QED BY Invariance, <1>1, PTL

\* The rules never write a static option through a null pointer.
THEOREM NoNullWrite == Spec => []NeverNull
<1>1. IInv => NeverNull
  BY DEF IInv
<1> QED BY Invariance, <1>1, PTL

\* An ethernet without dhcp has exactly the static options written in it.
THEOREM EthernetIsAsWritten == Spec => []EthernetOptions
<1>1. IInv => EthernetOptions
  BY DEF IInv
<1> QED BY Invariance, <1>1, PTL

\* No section has a static option that was written in another one.
THEOREM NoForeignOptions == Spec => []OwnOptions
<1>1. IInv => OwnOptions
  BY DEF IInv
<1> QED BY Invariance, <1>1, PTL
==============================================================================
