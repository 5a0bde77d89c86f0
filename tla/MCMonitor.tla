----------------------------- MODULE MCMonitor -----------------------------
(* A small instance of Monitor for TLC.                                    *)
EXTENDS Monitor

Sta(n, c, r) == [nwid |-> n, chan |-> c, rssi |-> r]

\* home: strong enough at 60% (153 of 255) and just below it; work: a station on
\* the configured channel and one on another.
MCStations == {Sta("home", 6, 153), Sta("home", 6, 152), Sta("work", 2, 200), Sta("work", 3, 200)}

Wlan(i, n, c, b, d) == [interface |-> i, nwid |-> n, channel |-> c, minsignal |-> 60,
                        bssid |-> b, wpakey |-> TRUE, isdhcp |-> d]

Home == Wlan("iwn0", "home", 6, FALSE, TRUE)
Work == Wlan("iwn0", "work", 2, FALSE, TRUE)
Strict == Wlan("ath0", "home", 6, TRUE, FALSE)
Anon == [Wlan("ath0", NoNwid, 0, FALSE, TRUE) EXCEPT !.wpakey = FALSE]

\* Two wireless on one interface, two networks, a bssid, an entry without nwid;
\* ethernets without and with an interface.
Net(e, w) == [ethernets |-> e, wlans |-> w]
Eth(i, d) == [interface |-> i, isdhcp |-> d]
MCConfigs == {<<Net(<<>>, <<Home, Work>>)>>,
              <<Net(<<>>, <<Strict>>), Net(<<>>, <<Work, Home>>)>>,
              <<Net(<<Eth(FALSE, TRUE)>>, <<>>), Net(<<>>, <<Work, Anon>>)>>,
              <<Net(<<Eth(TRUE, FALSE)>>, <<Home>>)>>}
=============================================================================
