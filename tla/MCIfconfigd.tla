---------------------------- MODULE MCIfconfigd ----------------------------
(* Small instances of Ifconfigd for TLC.                                   *)
EXTENDS Ifconfigd

lan    == [head |-> "lan", tail |-> NoTail]
dock   == [head |-> "dock", tail |-> NoTail]
office1 == [head |-> "office-f", tail |-> "loor1"]
office2 == [head |-> "office-f", tail |-> "loor2"]

Eth(n, h, i) == [name |-> n, how |-> h, interface |-> i]
Use(n) == [type |-> "USE_ETHERNET", name |-> n]
MonitorMsg == [type |-> "IFCONFIGD_MONITOR", name |-> NoName]
OtherMsg == [type |-> "USE_WIRELESS", name |-> NoName]

\* An empty list, and one ethernet that dhclient may take over.
LifeConfigs == {<<>>, <<Eth(lan, "dhcp", FALSE)>>}
LifeRequests == {MonitorMsg, OtherMsg}

\* Lists for what a request does: duplicates, long names that share their head,
\* both ways of configuring an address, interfaces named and not.
UseConfigs == {<<Eth(lan, "dhcp", FALSE), Eth(dock, "dhcp", FALSE)>>,
               <<Eth(dock, "dhcp", TRUE), Eth(lan, "static", FALSE)>>,
               <<Eth(dock, "dhcp", FALSE), Eth(lan, "dhcp", TRUE), Eth(dock, "static", FALSE)>>,
               <<Eth(office1, "dhcp", FALSE), Eth(office2, "dhcp", FALSE)>>}
UseRequests == {Use(lan), Use(dock), Use(office2), MonitorMsg, OtherMsg}

\* Short names only, one network per name.
ShortConfigs == {<<Eth(lan, "dhcp", FALSE), Eth(dock, "dhcp", FALSE)>>}
ShortRequests == {Use(lan), Use(dock)}

LongConfigs == {<<Eth(office1, "dhcp", FALSE), Eth(office2, "dhcp", FALSE)>>}
LongRequests == {Use(office2)}

DhcpConfigs == {<<Eth(lan, "dhcp", FALSE)>>}
DhcpRequests == {Use(lan)}
=============================================================================
