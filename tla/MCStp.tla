------------------------------- MODULE MCStp -------------------------------
(***************************************************************************)
(* Networks of two and three bridges, of which 1 is the best root.         *)
(***************************************************************************)
EXTENDS Stp, TLC

\* A network without guards, with all cables plugged in, whose cables change once.
Plain(links) ==
    [bridges |-> {p[1] : p \in UNION links}, links |-> links, plugged |-> links,
     edge |-> {}, root_guard |-> {}, bpdu_guard |-> {}, tcn_guard |-> {}, forward_delay |-> 2, max_age |-> 3,
     tx_hold |-> 3, home |-> None, changes |-> 1, losses |-> 0]

Ring == {{<<1, 1>>, <<2, 1>>}, {<<2, 2>>, <<3, 2>>}, {<<1, 2>>, <<3, 1>>}}
Pair == {{<<1, 1>>, <<2, 1>>}, {<<1, 2>>, <<2, 2>>}}

\* A ring that is about to be closed, and a station.
ClosingRing ==
    [Plain(Ring) EXCEPT !.plugged = @ \ {{<<1, 2>>, <<3, 1>>}}, !.home = 3]
\* The root hangs on a single link: two bridges remain that can tell each other of it.
StaleRoot ==
    [Plain({{<<1, 1>>, <<2, 1>>}, {<<2, 2>>, <<3, 1>>}, {<<2, 3>>, <<3, 2>>}})
        EXCEPT !.forward_delay = 3, !.tx_hold = 2]
\* Two links between two bridges, over which BPDUs are lost, and a station.
Lossy == [Plain(Pair) EXCEPT !.max_age = 6, !.tx_hold = 6, !.changes = 2, !.losses = 1, !.home = 2]
\* Two links between two bridges at edge ports, one of them guarded, and a cable from a
\* bridge to itself.
EdgePorts ==
    [Plain(Pair \union {{<<2, 3>>, <<2, 4>>}})
        EXCEPT !.edge = {<<2, 1>>, <<2, 2>>}, !.bpdu_guard = {<<2, 2>>}]
\* The best root is beyond two guarded ports, one of which lets no topology change in.
Outsider == [Plain(Ring) EXCEPT !.root_guard = {<<2, 1>>, <<3, 1>>}, !.tcn_guard = {<<2, 1>>}]

AllFive == <<ClosingRing, StaleRoot, Lossy, EdgePorts, Outsider>>
=============================================================================
