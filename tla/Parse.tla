-------------------------------- MODULE Parse --------------------------------
(***************************************************************************)
(* parse_config() and the parser behind it (parse.y): the stack of open    *)
(* files, the macros, the blocks, and the objects the rules allocate.      *)
(*                                                                         *)
(* A file is a sequence of lines, a line what the grammar makes of it: the *)
(* lexer's characters are left out, and of the options only those that go  *)
(* through a pointer that outlives a block (staticopts) and those that     *)
(* change it (dhcp) are told apart.  ctx stands for yacc's stack.          *)
(***************************************************************************)
EXTENDS Naturals, Sequences

CONSTANTS
    Files, Main,   \* file names, and the one parse_config is given
    Unreadable,    \* files fopen refuses
    Exposed,       \* files check_file_secrecy refuses
    Texts,         \* contents the files may have
    Macros, Keys,  \* macro names, static options
    Values, NULL,  \* their values, and no value
    MaxOpen        \* files the process can have open

\* use: a static option whose value is a macro; quote: a quoted string that the
\* file ends in; bad: a line with a syntax error, or one that its rule rejects
\* (name too long, interval too short); option: any other option of a section.
Line ==
    [k : {"include"}, a : Files]
    \cup [k : {"set"}, a : Macros, v : Values]
    \cup [k : {"static"}, a : Keys, v : Values]
    \cup [k : {"use"}, a : Keys, v : Macros]
    \cup [k : {"network", "ethernet", "wireless", "close", "dhcp yes", "dhcp no",
               "option", "interval", "quote", "bad"}]

ASSUME ParseAssumption ==
    /\ Main \in Files /\ Unreadable \subseteq Files /\ Exposed \subseteq Files
    /\ Texts \subseteq [Files -> Seq(Line)]
    /\ NULL \notin Values
    /\ MaxOpen \in Nat \ {0}

VARIABLES
    text,         \* what the files contain
    files,        \* the list of open files; the last is the variable file
    ctx,          \* top, network, ethernet, wireless, or discard: after an ERROR token
    syms,         \* symhead
    sections,     \* the ethernets and wireless in the order they were allocated
    statics,      \* the static_cfg objects, likewise; 0 is NULL
    section,      \* ether or wlan: the section of the open block, or 0
    staticonfig,  \* the global of that name
    result,       \* none: parsing; conf or NULL: returned; crash
    failed,       \* history: an error was reported in some file
    meant         \* history: for each section, the static options written in it

objects == <<sections, statics, section, staticonfig, meant>>
vars == <<text, files, ctx, syms, objects, result, failed>>

NoOptions == [key \in Keys |-> NULL]

File == [name : Files, pos : Nat \ {0}, errors : Nat]
Section == [kind : {"ethernet", "wireless"}, isdhcp : BOOLEAN, staticopts : Nat]

Top == Len(files)
file == files[Top]
HasLine == result = "none" /\ files # << >> /\ file.pos <= Len(text[file.name])
line == text[file.name][file.pos]
AtQuote == HasLine /\ line.k = "quote"
InSection == ctx \in {"ethernet", "wireless"}

Init ==
    /\ text \in Texts
    /\ files = << >> /\ ctx = "top"
    /\ syms = [m \in Macros |-> NULL]
    /\ sections = << >> /\ statics = << >> /\ section = 0 /\ staticonfig = 0
    /\ result = "none" /\ failed = FALSE /\ meant = << >>

-----------------------------------------------------------------------------
(* Files.                                                                  *)

\* pushfile; secret: it also looks at who may read the file.
CanPush(f, secret) ==
    /\ f \notin Unreadable /\ Len(files) < MaxOpen
    /\ secret => f \notin Exposed

Opened(f) == [name |-> f, pos |-> 1, errors |-> 0]

\* parse_config: pushfile of the main file, or NULL, when that or a calloc fails.
ParseConfig ==
    /\ result = "none" /\ files = << >>
    /\ \/ /\ CanPush(Main, FALSE) /\ files' = << Opened(Main) >>
          /\ UNCHANGED <<result, failed>>
       \/ /\ result' = "NULL" /\ failed' = TRUE
          /\ UNCHANGED files
    /\ UNCHANGED <<text, ctx, syms, objects>>

\* The list of files with one line of the last one read, and n errors more.
Advanced(n) ==
    [files EXCEPT ![Top] = [name |-> file.name, pos |-> file.pos + 1, errors |-> file.errors + n]]

\* popfile for an included file.  Faulty variants: its errors go with it; they are
\* read after the free.
PopDropping(fs) == SubSeq(fs, 1, Len(fs) - 1)
PopFreed(fs) == [SubSeq(fs, 1, Len(fs) - 1) EXCEPT ![Len(fs) - 1].errors = NULL]
Pop(fs) ==
    LET n == Len(fs) - 1
    IN [SubSeq(fs, 1, n) EXCEPT ![n].errors = @ + fs[n + 1].errors]

\* lgetc at the end of an included file: go on in the file that included it, at the
\* newline behind the include, which also ends the recovery from an error.
EndOfInclude ==
    /\ result = "none" /\ Top > 1 /\ ~HasLine
    /\ files' = Pop(files)
    /\ ctx' = IF ctx = "discard" THEN "top" ELSE ctx
    /\ UNCHANGED <<text, syms, objects, result, failed>>

\* An included file that ends within the quoted string of an option: yyerror, then
\* popfile.
Quote ==
    /\ AtQuote /\ Top > 1
    /\ files' = Pop(Advanced(1))
    /\ ctx' = IF InSection THEN ctx ELSE "top"
    /\ failed' = TRUE
    /\ UNCHANGED <<text, syms, objects, result>>

\* The end of the main file, within a quoted string or not: yyparse accepts, or
\* reports a syntax error inside a block; parse_config looks at the errors of the
\* file that is open.
EndOfMain ==
    /\ result = "none" /\ Top = 1
    /\ HasLine => AtQuote
    /\ LET bad == AtQuote \/ ctx # "top"
           n == IF bad THEN file.errors + 1 ELSE file.errors
       IN /\ result' = IF n = 0 THEN "conf" ELSE "NULL"
          /\ failed' = (failed \/ bad)
          /\ files' = [files EXCEPT ![1].errors = n]
    /\ UNCHANGED <<text, ctx, syms, objects>>

\* Faulty variant of Include: the line of the including file is read again.
IncludeAgain ==
    /\ HasLine /\ line.k = "include" /\ ctx = "top" /\ CanPush(line.a, TRUE)
    /\ files' = Append(files, Opened(line.a))
    /\ UNCHANGED <<text, ctx, syms, objects, result, failed>>

\* include: pushfile, and file = nfile; the newline is pushed back.
Include ==
    /\ HasLine /\ line.k = "include" /\ ctx = "top" /\ CanPush(line.a, TRUE)
    /\ files' = Append(Advanced(0), Opened(line.a))
    /\ UNCHANGED <<text, ctx, syms, objects, result, failed>>

-----------------------------------------------------------------------------
(* Lines.                                                                  *)

\* A macro that is not defined: findeol eats the line and the newline with it.
Undefined == line.k = "use" /\ syms[line.v] = NULL

\* What the grammar accepts where.
Accepted ==
    \/ ctx = "top" /\ line.k \in {"set", "interval", "network"}
    \/ ctx = "top" /\ line.k = "include" /\ CanPush(line.a, TRUE)
    \/ ctx = "network" /\ line.k \in {"ethernet", "wireless", "close"}
    \/ InSection /\ line.k \in {"static", "dhcp yes", "dhcp no", "option", "close"}
    \/ InSection /\ line.k = "use" /\ ~Undefined

\* An error: counted in the open file, and by "grammar error '\n'", which gives up
\* all open blocks; the globals keep pointing at what was allocated in them.
\* After an undefined macro the newline is gone, so the next line goes as well.
ErrorLine ==
    /\ HasLine /\ ~AtQuote /\ ~Accepted
    /\ ctx' = IF Undefined THEN "discard" ELSE "top"
    /\ files' = Advanced(1)
    /\ failed' = TRUE
    /\ UNCHANGED <<text, syms, objects, result>>

\* varset, and the rules that only set a field: update_interval of conf, or a field
\* of the open section.
SetLine ==
    /\ HasLine /\ Accepted /\ line.k \in {"set", "interval", "option"}
    /\ syms' = IF line.k = "set" THEN [syms EXCEPT ![line.a] = line.v] ELSE syms
    /\ files' = Advanced(0)
    /\ UNCHANGED <<text, ctx, objects, result, failed>>

\* network: a new network, inserted at the head of the list.
Network ==
    /\ HasLine /\ Accepted /\ line.k = "network"
    /\ ctx' = "network" /\ files' = Advanced(0)
    /\ UNCHANGED <<text, syms, objects, result, failed>>

\* calloc of a static_cfg.  Faulty variant: only when staticonfig is NULL.
CallocIfNull == IF staticonfig = 0 THEN Append(statics, NoOptions) ELSE statics
CallocStatic == Append(statics, NoOptions)

\* ethernet and wireless: a new section with a static_cfg of its own.
OpenSection ==
    /\ HasLine /\ Accepted /\ line.k \in {"ethernet", "wireless"}
    /\ ctx' = line.k /\ files' = Advanced(0)
    /\ statics' = CallocStatic /\ staticonfig' = Len(statics')
    /\ sections' = Append(sections, [kind |-> line.k, isdhcp |-> FALSE, staticopts |-> staticonfig'])
    /\ section' = Len(sections')
    /\ meant' = Append(meant, NoOptions)
    /\ UNCHANGED <<text, syms, result, failed>>

\* staticonfig at the end of a block: an ethernet resets it, a wireless does not.
AfterBlock == IF ctx = "ethernet" THEN 0 ELSE staticonfig

\* '}': the end of a section or of a network.
CloseBlock ==
    /\ HasLine /\ Accepted /\ line.k = "close"
    /\ ctx' = IF InSection THEN "network" ELSE "top"
    /\ section' = IF InSection THEN 0 ELSE section
    /\ staticonfig' = IF InSection THEN AfterBlock ELSE staticonfig
    /\ files' = Advanced(0)
    /\ UNCHANGED <<text, syms, sections, statics, result, failed, meant>>

\* staticopts of an ethernet with dhcp yes.  Faulty variant: they stay.
DhcpKeeps == sections[section].staticopts
DhcpYesOpts == IF ctx = "ethernet" THEN 0 ELSE sections[section].staticopts

\* isdhcp and staticopts of the open section are set.
SetDhcp(yes, opts) ==
    sections' = [sections EXCEPT ![section] = [kind |-> @.kind, isdhcp |-> yes, staticopts |-> opts]]

\* Faulty variant of DhcpYes: staticonfig is reset along with staticopts.
DhcpYesReset ==
    /\ HasLine /\ Accepted /\ line.k = "dhcp yes"
    /\ SetDhcp(TRUE, 0)
    /\ staticonfig' = 0
    /\ files' = Advanced(0)
    /\ UNCHANGED <<text, ctx, syms, statics, section, result, failed, meant>>

\* dhcp yes: staticonfig keeps pointing at the options.
DhcpYes ==
    /\ HasLine /\ Accepted /\ line.k = "dhcp yes"
    /\ SetDhcp(TRUE, DhcpYesOpts)
    /\ files' = Advanced(0)
    /\ UNCHANGED <<text, ctx, syms, statics, section, staticonfig, result, failed, meant>>

\* dhcp no: an ethernet gets its static_cfg back, a wireless a new, empty one.
DhcpNo ==
    /\ HasLine /\ Accepted /\ line.k = "dhcp no"
    /\ \/ /\ ctx = "ethernet" /\ staticonfig # 0
          /\ UNCHANGED <<statics, staticonfig>>
       \/ /\ ctx = "wireless" \/ staticonfig = 0
          /\ statics' = Append(statics, NoOptions) /\ staticonfig' = Len(statics')
    /\ SetDhcp(FALSE, staticonfig')
    /\ files' = Advanced(0)
    /\ UNCHANGED <<text, ctx, syms, section, result, failed, meant>>

\* staticopts: written through the global, whatever the section points at.
StaticOption ==
    LET v == IF line.k = "use" THEN syms[line.v] ELSE line.v
    IN /\ HasLine /\ Accepted /\ line.k \in {"static", "use"}
       /\ IF staticonfig # 0
             THEN /\ statics' = [statics EXCEPT ![staticonfig][line.a] = v]
                  /\ UNCHANGED result
             ELSE result' = "crash" /\ UNCHANGED statics
       /\ meant' = [meant EXCEPT ![section][line.a] = v]
       /\ files' = Advanced(0)
       /\ UNCHANGED <<text, ctx, syms, sections, section, staticonfig, failed>>

Step ==
    \/ ParseConfig \/ EndOfInclude \/ Quote \/ EndOfMain \/ Include \/ ErrorLine \/ SetLine
    \/ Network \/ OpenSection \/ CloseBlock \/ DhcpYes \/ DhcpNo \/ StaticOption

\* parse_config has returned, once.
Returned == result # "none" /\ UNCHANGED vars

Next == Step \/ Returned

Spec == Init /\ [][Next]_vars
FairSpec == Spec /\ WF_vars(Step)

-----------------------------------------------------------------------------
(* Properties.                                                             *)

\* Type invariant of the parser's globals and of what it has allocated.
TypeOK ==
    /\ text \in [Files -> Seq(Line)] /\ files \in Seq(File)
    /\ ctx \in {"top", "network", "ethernet", "wireless", "discard"}
    /\ syms \in [Macros -> Values \cup {NULL}]
    /\ sections \in Seq(Section) /\ section \in 0..Len(sections)
    /\ statics \in Seq([Keys -> Values \cup {NULL}]) /\ staticonfig \in 0..Len(statics)
    /\ meant \in Seq([Keys -> Values \cup {NULL}]) /\ Len(meant) = Len(sections)
    /\ result \in {"none", "conf", "NULL", "crash"} /\ failed \in BOOLEAN

\* parse_config gives a configuration exactly when no line of any file was in
\* error: an error in a file included from an included file is still known when
\* the main file ends.
ErrorsKept ==
    /\ result = "conf" => ~failed
    /\ result = "NULL" => failed

\* The options of an ethernet arrive where connect_ethernet looks for them: with
\* dhcp there are no staticopts, and without it they are exactly what was written
\* in that section, whatever order the options and "dhcp" lines came in.
EthernetOptions ==
    \A i \in DOMAIN sections :
        LET s == sections[i] IN
        s.kind = "ethernet" =>
            IF s.isdhcp THEN s.staticopts = 0
                        ELSE s.staticopts # 0 /\ statics[s.staticopts] = meant[i]

\* No section has an option that was written in another one, although the rules
\* write through a global that a wireless block and error recovery leave set.
OwnOptions ==
    \A i \in DOMAIN sections : sections[i].staticopts # 0 =>
        \A key \in Keys : statics[sections[i].staticopts][key] \in {meant[i][key], NULL}

\* The rule for a static option never writes through a null staticonfig.
NeverNull == result # "crash"

\* parse_config returns, also when files include themselves or each other: the
\* descriptors run out.
Terminates == <>(result # "none")
==============================================================================
