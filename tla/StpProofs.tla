----------------------------- MODULE StpProofs -----------------------------
(***************************************************************************)
(* Proofs about Stp: root guard, for any number of networks of any shape,  *)
(* any timers, any changes of carrier and any losses.                      *)
(*                                                                         *)
(* The argument is one of types.  A BPDU on the way to a port carries a    *)
(* root from the region of the bridge that sent it, so does the vector of  *)
(* a port that has received one, and a bridge takes its root from itself   *)
(* or from a port without root guard, beyond which its own region goes on. *)
(***************************************************************************)
EXTENDS Stp, WellFoundedInduction, SequenceTheorems, TLAPS

----------------------------------------------------------------------------
(* Networks. *)

\* Forced only makes TLC evaluate its argument.
LEMMA ForcedIs ==
    ASSUME NEW f
    PROVE  Forced(f) = f
<1>1. f \in {f} /\ \E g \in {f} : TRUE
  OBVIOUS
<1>2. (CHOOSE g \in {f} : TRUE) \in {f}
  BY <1>1
<1> QED BY <1>2 DEF Forced

\* The port at the other end of a cable.
LEMMA PeerIs ==
    ASSUME NEW n \in DOMAIN Networks, NEW p \in PortsIn[n]
    PROVE  /\ PeerIn[n][p] \in PortsIn[n]
           /\ {p, PeerIn[n][p]} \in Networks[n].links
<1> DEFINE P == PortsIn[n]
           L == Networks[n].links
           Other(q) == q # p /\ {p, q} \in L
<1>1. P = UNION L
  BY DEF PortsIn
<1>2. PICK l \in L : p \in l
  BY <1>1
<1>3. PICK a \in l, b \in l : a # b /\ l = {a, b}
  BY StpAssumption
<1>4. \E q \in P : Other(q)
  <2>1. CASE p = a
    BY <1>1, <1>2, <1>3, <2>1
  <2>2. CASE p = b
    <3>1. {b, a} = l
      BY <1>3
    <3> QED BY <1>1, <1>2, <1>3, <2>2, <3>1
  <2> QED BY <1>2, <1>3, <2>1, <2>2
<1>5. PeerIn[n][p] = CHOOSE q \in P : Other(q)
  <2> DEFINE F == [x \in PortsIn[n] |-> CHOOSE q \in PortsIn[n] : q # x /\ {x, q} \in Networks[n].links]
  <2>1. PeerIn[n] = Forced(F)
    BY DEF PeerIn
  <2>2. PeerIn[n] = F
    BY <2>1, ForcedIs
  <2> QED BY <2>2
<1> HIDE DEF P
<1>6. PeerIn[n][p] \in P /\ Other(PeerIn[n][p])
  <2> HIDE DEF Other
  <2> QED BY <1>4, <1>5
<1> QED BY <1>6 DEF P

\* Being connected is symmetric: a link leads both ways.
LEMMA ConnectedIs ==
    ASSUME NEW B, NEW L, NEW b \in B
    PROVE  /\ b \in Connected(B, L, b) /\ Connected(B, L, b) \subseteq B
           /\ (\A l \in L : \A p \in l : p[1] \in B) =>
                  \A c \in Connected(B, L, b) : Connected(B, L, c) = Connected(B, L, b)
<1>1. b \in Connected(B, L, b)
  BY DEF Connected
<1>2. \A x : Connected(B, L, x) \subseteq B
  BY DEF Connected
<1>3. ASSUME \A l \in L : \A p \in l : p[1] \in B, NEW c \in Connected(B, L, b)
      PROVE  Connected(B, L, c) = Connected(B, L, b)
  <2>0. c \in B
    BY DEF Connected
  <2>1. ASSUME NEW x \in B PROVE Closed(L, Connected(B, L, x))
    <3> SUFFICES ASSUME NEW l \in L, NEW p \in l, p[1] \in Connected(B, L, x), NEW q \in l
                 PROVE  q[1] \in Connected(B, L, x)
      BY DEF Closed
    <3>1. q[1] \in B
      BY <1>3
    <3>2. ASSUME NEW S \in SUBSET B, x \in S, Closed(L, S) PROVE q[1] \in S
      <4>1. p[1] \in S
        BY <3>2 DEF Connected
      <4> QED BY <3>2, <4>1 DEF Closed
    <3> QED BY <3>1, <3>2 DEF Connected
  <2>2. ASSUME NEW x \in B, NEW y \in Connected(B, L, x) PROVE Connected(B, L, y) \subseteq Connected(B, L, x)
    <3>1. Connected(B, L, x) \in SUBSET B /\ Closed(L, Connected(B, L, x))
      BY <1>2, <2>1
    <3> SUFFICES ASSUME NEW z \in Connected(B, L, y) PROVE z \in Connected(B, L, x)
      OBVIOUS
    <3>2. \A S \in SUBSET B : y \in S /\ Closed(L, S) => z \in S
      BY DEF Connected
    <3> HIDE DEF Connected
    <3> QED BY <2>2, <3>1, <3>2
  <2>3. b \in Connected(B, L, c)
    <3> DEFINE C == Connected(B, L, c)
               S == B \ C
    <3> SUFFICES ASSUME b \notin C PROVE FALSE
      OBVIOUS
    <3>1. Closed(L, C) /\ c \in C
      BY <2>0, <2>1 DEF Connected
    <3> HIDE DEF C
    <3>2. Closed(L, S)
      BY <1>3, <3>1 DEF Closed
    <3>3. S \in SUBSET B /\ b \in S
      OBVIOUS
    <3>4. c \in S
      BY <3>2, <3>3 DEF Connected
    <3> QED BY <3>1, <3>4
  <2> QED BY <2>0, <2>2, <2>3
<1> QED BY <1>1, <1>2, <1>3

\* The bridges whose roots a bridge may follow.
LEMMA RegionFacts ==
    ASSUME NEW n \in DOMAIN Networks, NEW b \in Networks[n].bridges
    PROVE  /\ RegionIn[n][b] = Region(Networks[n], b)
           /\ b \in RegionIn[n][b] /\ RegionIn[n][b] \subseteq Networks[n].bridges
<1> DEFINE N == Networks[n]
           F == [x \in Networks[n].bridges |-> Region(Networks[n], x)]
<1>1. RegionIn[n] = F
  BY ForcedIs DEF RegionIn
<1>2. RegionIn[n][b] = Region(N, b)
  BY <1>1
<1>3. b \in Region(N, b) /\ Region(N, b) \subseteq N.bridges
  <2> DEFINE inside == Connected(N.bridges, {l \in N.links : l \intersect N.root_guard = {}}, b)
  <2>1. b \in inside /\ inside \subseteq N.bridges
    BY ConnectedIs
  <2>2. Region(N, b) = inside \/ Region(N, b) = N.bridges
    BY DEF Region
  <2> HIDE DEF inside
  <2> QED BY <2>1, <2>2
<1> QED BY <1>2, <1>3

\* The heart of root guard: behind a port without it lies the region of its own bridge.
LEMMA RegionGoesOn ==
    ASSUME NEW n \in DOMAIN Networks, NEW p \in PortsIn[n], p \notin Networks[n].root_guard
    PROVE  RegionIn[n][PeerIn[n][p][1]] \subseteq RegionIn[n][p[1]]
<1> DEFINE N == Networks[n]
           q == PeerIn[n][p]
           b == p[1]
           c == q[1]
           open == {l \in N.links : l \intersect N.root_guard = {}}
           In(x) == Connected(N.bridges, open, x)
           Border(I) == {l \in N.links : {e[1] : e \in l} \intersect I \notin {{}, {e[1] : e \in l}}}
           Guarded1(I) == \A l \in Border(I) : \A e \in l : e[1] \in I => e \in N.root_guard
<1>1. q \in PortsIn[n] /\ {p, q} \in N.links
  BY PeerIs
<1>2. b \in N.bridges /\ c \in N.bridges
  BY <1>1, StpAssumption
<1>3. \A x \in N.bridges : RegionIn[n][x] = IF Guarded1(In(x)) THEN In(x) ELSE N.bridges
  BY RegionFacts DEF Region
<1>4. \A l \in open : \A e \in l : e[1] \in N.bridges
  BY StpAssumption DEF PortsIn
<1>5. RegionIn[n][c] \subseteq N.bridges
  BY <1>2, RegionFacts
<1>6. CASE ~Guarded1(In(b))
  BY <1>2, <1>3, <1>5, <1>6
<1>7. CASE Guarded1(In(b))
  <2>1. b \in In(b)
    BY <1>2, ConnectedIs
  <2>2. c \in In(b)
    <3> SUFFICES ASSUME c \notin In(b) PROVE FALSE
      OBVIOUS
    <3> HIDE DEF In, q
    <3>1. b \in {e[1] : e \in {p, q}} /\ c \in {e[1] : e \in {p, q}}
      OBVIOUS
    <3>2. {p, q} \in Border(In(b))
      BY <1>1, <2>1, <3>1
    <3>3. p \in N.root_guard
      BY <1>7, <2>1, <3>2
    <3> QED BY <3>3
  <2>3. In(c) = In(b)
    <3> HIDE DEF open
    <3> QED BY <1>2, <1>4, <2>2, ConnectedIs
  <2> HIDE DEF In, Guarded1
  <2> QED BY <1>2, <1>3, <1>7, <2>3
<1> QED BY <1>6, <1>7

----------------------------------------------------------------------------
(* The best port exists. *)

\* Of things that are numbered, some have the lowest number.
LEMMA LeastBy ==
    ASSUME NEW C, C # {}, NEW f, \A p \in C : f[p] \in Nat
    PROVE  \E p \in C : \A q \in C : f[p] <= f[q]
<1> DEFINE T == {f[p] : p \in C}
           R == OpToRel(<, Nat)
<1>1. T \in SUBSET Nat /\ T # {}
  OBVIOUS
<1>2. PICK x \in T : \A y \in T : ~(<<y, x>> \in R)
  <2>1. IsWellFoundedOn(R, Nat)
    BY NatLessThanWellFounded
  <2> HIDE DEF R, T
  <2> QED BY <1>1, <2>1, WFMin
<1>3. \A y \in T : y \in Nat /\ x \in Nat /\ ~(y < x)
  BY <1>1, <1>2 DEF OpToRel
<1>4. PICK p \in C : x = f[p]
  OBVIOUS
<1>5. \A q \in C : f[q] \in T
  OBVIOUS
<1> HIDE DEF T
<1>6. \A q \in C : f[p] <= f[q]
  BY <1>3, <1>4, <1>5
<1> QED BY <1>6

Prio == Nat \X Nat \X Nat \X Nat

\* The components of a vector, as seen through a port.
LEMMA ThroughIs ==
    ASSUME NEW S, NEW p, S[p].prio \in Prio
    PROVE  /\ Through(S, p) \in Prio /\ Through(S, p)[1] \in Nat /\ Through(S, p)[2] \in Nat
           /\ Through(S, p)[3] \in Nat /\ Through(S, p)[4] \in Nat
BY DEF Through, Prio

\* Vectors are compared component by component.
LEMMA LessIs ==
    ASSUME NEW v \in Prio, NEW w \in Prio
    PROVE  /\ v[1] < w[1] => Less(v, w)
           /\ v[1] = w[1] /\ v[2] < w[2] => Less(v, w)
           /\ v[1] = w[1] /\ v[2] = w[2] /\ v[3] < w[3] => Less(v, w)
           /\ v[1] = w[1] /\ v[2] = w[2] /\ v[3] = w[3] /\ v[4] < w[4] => Less(v, w)
           /\ v[1] = w[1] /\ v[2] = w[2] /\ v[3] = w[3] /\ v[4] = w[4] => v = w
<1>1. ASSUME v[1] < w[1] PROVE Less(v, w)
  <2>1. 1 \in 1 .. 4 /\ \A j \in 1 .. (1 - 1) : v[j] = w[j]
    OBVIOUS
  <2> QED BY <1>1, <2>1 DEF Less
<1>2. ASSUME v[1] = w[1], v[2] < w[2] PROVE Less(v, w)
  <2>1. 2 \in 1 .. 4 /\ \A j \in 1 .. (2 - 1) : v[j] = w[j]
    <3>1. \A j \in 1 .. (2 - 1) : j = 1
      OBVIOUS
    <3> QED BY <1>2, <3>1
  <2> QED BY <1>2, <2>1 DEF Less
<1>3. ASSUME v[1] = w[1], v[2] = w[2], v[3] < w[3] PROVE Less(v, w)
  <2>1. 3 \in 1 .. 4 /\ \A j \in 1 .. (3 - 1) : v[j] = w[j]
    <3>1. \A j \in 1 .. (3 - 1) : j = 1 \/ j = 2
      OBVIOUS
    <3> QED BY <1>3, <3>1
  <2> QED BY <1>3, <2>1 DEF Less
<1>4. ASSUME v[1] = w[1], v[2] = w[2], v[3] = w[3], v[4] < w[4] PROVE Less(v, w)
  <2>1. 4 \in 1 .. 4 /\ \A j \in 1 .. (4 - 1) : v[j] = w[j]
    <3>1. \A j \in 1 .. (4 - 1) : j = 1 \/ j = 2 \/ j = 3
      OBVIOUS
    <3> QED BY <1>4, <3>1
  <2> QED BY <1>4, <2>1 DEF Less
<1>5. ASSUME v[1] = w[1], v[2] = w[2], v[3] = w[3], v[4] = w[4] PROVE v = w
  BY <1>5 DEF Prio
<1> QED BY <1>1, <1>2, <1>3, <1>4, <1>5

\* Some candidate is at least as good as all others (stp_reselect).
LEMMA BestExists ==
    ASSUME NEW C, C # {}, NEW S, \A p \in C : S[p].prio \in Prio, \A p \in C : p[2] \in Nat
    PROVE  \E p \in C : \A q \in C : BetterRoot(S, p, q)
<1>0. \A p \in C : /\ Through(S, p) \in Prio /\ Through(S, p)[1] \in Nat /\ Through(S, p)[2] \in Nat
                   /\ Through(S, p)[3] \in Nat /\ Through(S, p)[4] \in Nat
  BY ThroughIs
<1>1. PICK p1 \in C : \A q \in C : Through(S, p1)[1] <= Through(S, q)[1]
  <2> DEFINE g == [p \in C |-> Through(S, p)[1]]
  <2>1. \A p \in C : g[p] \in Nat /\ g[p] = Through(S, p)[1]
    BY <1>0
  <2> HIDE DEF g
  <2>2. \E p \in C : \A q \in C : g[p] <= g[q]
    BY <2>1, LeastBy
  <2> QED BY <2>1, <2>2
<1> DEFINE C1 == {p \in C : Through(S, p)[1] = Through(S, p1)[1]}
<1>2. PICK p2 \in C1 : \A q \in C1 : Through(S, p2)[2] <= Through(S, q)[2]
  <2> DEFINE g == [p \in C1 |-> Through(S, p)[2]]
  <2>1. \A p \in C1 : g[p] \in Nat /\ g[p] = Through(S, p)[2]
    BY <1>0
  <2>2. C1 # {}
    OBVIOUS
  <2> HIDE DEF g, C1
  <2>3. \E p \in C1 : \A q \in C1 : g[p] <= g[q]
    BY <2>1, <2>2, LeastBy
  <2> QED BY <2>1, <2>3
<1> DEFINE C2 == {p \in C1 : Through(S, p)[2] = Through(S, p2)[2]}
<1>3. PICK p3 \in C2 : \A q \in C2 : Through(S, p3)[3] <= Through(S, q)[3]
  <2> DEFINE g == [p \in C2 |-> Through(S, p)[3]]
  <2>1. \A p \in C2 : g[p] \in Nat /\ g[p] = Through(S, p)[3]
    BY <1>0
  <2>2. C2 # {}
    OBVIOUS
  <2> HIDE DEF g, C2
  <2>3. \E p \in C2 : \A q \in C2 : g[p] <= g[q]
    BY <2>1, <2>2, LeastBy
  <2> QED BY <2>1, <2>3
<1> DEFINE C3 == {p \in C2 : Through(S, p)[3] = Through(S, p3)[3]}
<1>4. PICK p4 \in C3 : \A q \in C3 : Through(S, p4)[4] <= Through(S, q)[4]
  <2> DEFINE g == [p \in C3 |-> Through(S, p)[4]]
  <2>1. \A p \in C3 : g[p] \in Nat /\ g[p] = Through(S, p)[4]
    BY <1>0
  <2>2. C3 # {}
    OBVIOUS
  <2> HIDE DEF g, C3
  <2>3. \E p \in C3 : \A q \in C3 : g[p] <= g[q]
    BY <2>1, <2>2, LeastBy
  <2> QED BY <2>1, <2>3
<1> DEFINE C4 == {p \in C3 : Through(S, p)[4] = Through(S, p4)[4]}
<1>5. PICK p5 \in C4 : \A q \in C4 : p5[2] <= q[2]
  <2> DEFINE g == [p \in C4 |-> p[2]]
  <2>1. \A p \in C4 : g[p] \in Nat /\ g[p] = p[2]
    OBVIOUS
  <2>2. C4 # {}
    OBVIOUS
  <2> HIDE DEF g, C4
  <2>3. \E p \in C4 : \A q \in C4 : g[p] <= g[q]
    BY <2>1, <2>2, LeastBy
  <2> QED BY <2>1, <2>3
<1> DEFINE v == Through(S, p5)
<1>6. p5 \in C /\ v \in Prio /\ v[1] \in Nat /\ v[2] \in Nat /\ v[3] \in Nat /\ v[4] \in Nat
  BY <1>0
<1>7. /\ v[1] = Through(S, p1)[1] /\ v[2] = Through(S, p2)[2]
      /\ v[3] = Through(S, p3)[3] /\ v[4] = Through(S, p4)[4]
  OBVIOUS
<1>8. ASSUME NEW q \in C PROVE BetterRoot(S, p5, q)
  <2> DEFINE w == Through(S, q)
  <2>0. w \in Prio /\ w[1] \in Nat /\ w[2] \in Nat /\ w[3] \in Nat /\ w[4] \in Nat
    BY <1>0
  <2>1. /\ v[1] <= w[1]
        /\ w[1] = v[1] => q \in C1 /\ v[2] <= w[2]
        /\ w[1] = v[1] /\ w[2] = v[2] => q \in C2 /\ v[3] <= w[3]
        /\ w[1] = v[1] /\ w[2] = v[2] /\ w[3] = v[3] => q \in C3 /\ v[4] <= w[4]
        /\ w[1] = v[1] /\ w[2] = v[2] /\ w[3] = v[3] /\ w[4] = v[4] => p5[2] <= q[2]
    BY <1>1, <1>2, <1>3, <1>4, <1>5, <1>7
  <2>2. BetterRoot(S, p5, q) <=> Less(v, w) \/ (v = w /\ p5[2] <= q[2])
    BY DEF BetterRoot
  <2> HIDE DEF v, w, C1, C2, C3
  <2>3. \/ v[1] < w[1]
        \/ v[1] = w[1] /\ v[2] < w[2]
        \/ v[1] = w[1] /\ v[2] = w[2] /\ v[3] < w[3]
        \/ v[1] = w[1] /\ v[2] = w[2] /\ v[3] = w[3] /\ v[4] < w[4]
        \/ v[1] = w[1] /\ v[2] = w[2] /\ v[3] = w[3] /\ v[4] = w[4] /\ p5[2] <= q[2]
    BY <1>6, <2>0, <2>1
  <2>4. Less(v, w) \/ (v = w /\ p5[2] <= q[2])
    BY <1>6, <2>0, <2>3, LessIs
  <2> QED BY <2>2, <2>4
<1> QED BY <1>6, <1>8

----------------------------------------------------------------------------
(* Ports: what they hold, and what the stages of stp_run keep of it. *)

Fields == {"was", "role", "state", "info", "prio", "age", "rcvd", "fd", "tc", "rcvd_tc", "edge",
           "hello", "new_info", "tx"}
Roles == {"Disabled", "Root", "Designated", "Alternate", "Backup"}

\* The roots that may reach port p: those of the region of its peer.
Beyond(p) == RegionIn[net][Peer[p][1]]

Shape(s) == DOMAIN s = Fields /\ s.prio \in Prio /\ s.age \in Nat /\ s.role \in Roles
PortOk(p, s) == Shape(s) /\ (s.info = "Received" => s.prio[1] \in Beyond(p))
Bpdu(p) == [root : Beyond(p) \cap Nat, cost : Nat, bridge : Nat, port : Nat, age : Nat, role : Roles, tc : BOOLEAN]
RootRec(b) == [root : RegionIn[net][b] \cap Nat, cost : Nat, port : Nat, age : Nat]

\* t holds the same information as s.
Same(s, t) == Shape(t) /\ t.prio = s.prio /\ t.info = s.info

\* Only the information of a port is in the invariant.
LEMMA SameKeeps ==
    ASSUME NEW p, NEW s, PortOk(p, s), NEW t, Same(s, t)
    PROVE  PortOk(p, t)
BY DEF PortOk, Same

\* A port without a history (StpPort::new).
LEMMA NewPortOk ==
    ASSUME NEW p
    PROVE  PortOk(p, NewPort)
BY DEF PortOk, Shape, NewPort, Fields, Roles, Prio, Infinite

\* Ports that come up or go down, and information that expires.
LEMMA RefreshedOk ==
    ASSUME NEW p, NEW s, PortOk(p, s), NEW oper
    PROVE  PortOk(p, Refreshed(p, s, oper))
<1>1. CASE p \notin oper
  BY <1>1, NewPortOk DEF Refreshed
<1>2. CASE p \in oper
  <2> DEFINE up == IF s.was THEN s
                   ELSE [s EXCEPT !.was = TRUE, !.info = "Aged", !.edge = p \in Edge,
                                  !.hello = TRUE, !.new_info = TRUE]
             i == IF up.info = "Received" /\ s.rcvd = 0 THEN "Aged" ELSE up.info
             e == up.edge /\ p \in Edge
             t == [up EXCEPT !.edge = e, !.info = i]
  <2>1. Shape(up) /\ up.prio = s.prio /\ (up.info = s.info \/ up.info = "Aged")
    <3>1. CASE s.was
      BY <3>1 DEF PortOk
    <3>2. CASE ~s.was
      BY <3>2 DEF PortOk, Shape, Fields
    <3> QED BY <3>1, <3>2
  <2>2. i = up.info \/ i = "Aged"
    OBVIOUS
  <2>3. Refreshed(p, s, oper) = t
    BY <1>2 DEF Refreshed
  <2> HIDE DEF up, i, e
  <2>4. Shape(t) /\ t.prio = up.prio /\ t.info = i
    BY <2>1 DEF Shape, Fields
  <2> HIDE DEF t
  <2> QED BY <2>1, <2>2, <2>3, <2>4 DEF PortOk
<1> QED BY <1>1, <1>2

\* updtRolesTree for one port.
LEMMA SelectedOk ==
    ASSUME NEW p, p[1] \in Nat, p[2] \in Nat, NEW s, PortOk(p, s), NEW R, R.root \in Nat, R.cost \in Nat, R.age \in Nat
    PROVE  PortOk(p, Selected(p, s, R))
<1> DEFINE d == <<R.root, R.cost, p[1], p[2]>>
<1>1. d \in Prio
  BY DEF Prio
<1> HIDE DEF d
<1>2. ASSUME NEW r \in Roles, NEW t, PortOk(p, t) PROVE PortOk(p, InRole(t, r))
  <2> DEFINE n == t.new_info \/ (r # t.role /\ r \in {"Designated", "Root"})
             u == [t EXCEPT !.new_info = n, !.role = r]
  <2>1. InRole(t, r) = u
    BY DEF InRole
  <2> HIDE DEF n
  <2>2. Same(t, u)
    BY <1>2 DEF PortOk, Same, Shape, Fields
  <2> QED BY <1>2, <2>1, <2>2, SameKeeps
<1>3. PortOk(p, TakeOver(s, R, d))
  <2> DEFINE n == s.new_info \/ s.info # "Mine" \/ s.prio # d \/ s.age # R.age
             u == [s EXCEPT !.new_info = n, !.info = "Mine", !.prio = d, !.age = R.age]
  <2>1. TakeOver(s, R, d) = u
    BY DEF TakeOver
  <2> HIDE DEF n
  <2>2. Shape(u) /\ u.info = "Mine"
    BY <1>1 DEF PortOk, Shape, Fields
  <2> QED BY <2>1, <2>2 DEF PortOk
<1>4. PortOk(p, [s EXCEPT !.role = "Disabled"])
  <2> DEFINE u == [s EXCEPT !.role = "Disabled"]
  <2>1. Same(s, u)
    BY DEF PortOk, Same, Shape, Fields, Roles
  <2> QED BY <2>1, SameKeeps
<1>5. {"Disabled", "Root", "Designated", "Alternate", "Backup"} \subseteq Roles
  BY DEF Roles
<1>6. \/ Selected(p, s, R) = [s EXCEPT !.role = "Disabled"]
      \/ Selected(p, s, R) = InRole(TakeOver(s, R, d), "Designated")
      \/ \E r \in Roles : Selected(p, s, R) = InRole(s, r)
  BY <1>5 DEF Selected, d
<1>7. PortOk(p, InRole(TakeOver(s, R, d), "Designated"))
  BY <1>2, <1>3, <1>5
<1>8. \A r \in Roles : PortOk(p, InRole(s, r))
  BY <1>2
<1> QED BY <1>4, <1>6, <1>7, <1>8

\* Timers, announcements and transmission touch no information.
LEMMA OthersKeep ==
    ASSUME NEW s, Shape(s)
    PROVE  /\ Same(s, Stepped(s)) /\ Same(s, [s EXCEPT !.rcvd_tc = FALSE]) /\ Same(s, Sent(s))
           /\ \A p, D, X : Same(s, Announced(p, s, D, X))
           /\ \A a, b, c, d, e : Same(s, [s EXCEPT !.rcvd = a, !.fd = b, !.tc = c, !.hello = d, !.tx = e])
<1>0. Same(s, s)
  BY DEF Same
<1>1. Same(s, [s EXCEPT !.rcvd_tc = FALSE])
  BY DEF Same, Shape, Fields
<1>2. \A a : Same(s, [s EXCEPT !.state = a, !.fd = -1])
  BY DEF Same, Shape, Fields
<1>3. \A a, b, c, d, e : Same(s, [s EXCEPT !.rcvd = a, !.fd = b, !.tc = c, !.hello = d, !.tx = e])
  BY DEF Same, Shape, Fields
<1>4. Same(s, Stepped(s))
  <2>1. CASE s.role \notin {"Root", "Designated"}
    BY <1>2, <2>1 DEF Stepped
  <2>2. CASE s.role \in {"Root", "Designated"} /\ s.role = "Designated" /\ s.edge
    BY <1>2, <2>2 DEF Stepped
  <2> DEFINE one == s.state = "Discarding" /\ s.fd = -1
             two == s.state = "Discarding" /\ s.fd = 0
             three == s.state = "Learning" /\ s.fd <= 0
             c == CASE one -> [s EXCEPT !.fd = ForwardDelay]
                    [] two -> [s EXCEPT !.state = "Learning", !.fd = ForwardDelay, !.new_info = TRUE]
                    [] three -> [s EXCEPT !.state = "Forwarding", !.fd = -1, !.new_info = TRUE]
                    [] OTHER -> s
  <2>3. CASE s.role \in {"Root", "Designated"} /\ ~(s.role = "Designated" /\ s.edge)
    <3>1. Stepped(s) = c
      BY <2>3 DEF Stepped
    <3>2. ~(one /\ two) /\ ~(one /\ three) /\ ~(two /\ three)
      OBVIOUS
    <3> HIDE DEF one, two, three
    <3>3. \/ c = [s EXCEPT !.fd = ForwardDelay]
          \/ c = [s EXCEPT !.state = "Learning", !.fd = ForwardDelay, !.new_info = TRUE]
          \/ c = [s EXCEPT !.state = "Forwarding", !.fd = -1, !.new_info = TRUE]
          \/ c = s
      BY <3>2
    <3> HIDE DEF c
    <3>4. /\ Same(s, [s EXCEPT !.fd = ForwardDelay])
          /\ Same(s, [s EXCEPT !.state = "Learning", !.fd = ForwardDelay, !.new_info = TRUE])
          /\ Same(s, [s EXCEPT !.state = "Forwarding", !.fd = -1, !.new_info = TRUE])
      BY DEF Same, Shape, Fields
    <3> QED BY <1>0, <3>1, <3>3, <3>4, Zenon
  <2> QED BY <2>1, <2>2, <2>3
<1>5. Same(s, Sent(s))
  <2> DEFINE n == s.new_info \/ s.hello
             k == s.tx + 1
  <2>1. \/ Sent(s) = s
        \/ Sent(s) = [s EXCEPT !.new_info = FALSE]
        \/ Sent(s) = [s EXCEPT !.new_info = FALSE, !.hello = FALSE, !.tx = k]
        \/ Sent(s) = [s EXCEPT !.new_info = n, !.hello = FALSE]
    BY DEF Sent
  <2> HIDE DEF n, k
  <2>2. /\ Same(s, [s EXCEPT !.new_info = FALSE])
        /\ Same(s, [s EXCEPT !.new_info = FALSE, !.hello = FALSE, !.tx = k])
        /\ Same(s, [s EXCEPT !.new_info = n, !.hello = FALSE])
    BY DEF Same, Shape, Fields
  <2> QED BY <1>0, <2>1, <2>2, Zenon
<1>6. \A p, D, X : Same(s, Announced(p, s, D, X))
  <2> TAKE p, D, X
  <2>1. Announced(p, s, D, X) = s \/ Announced(p, s, D, X) = [s EXCEPT !.tc = TcTime, !.new_info = TRUE]
    BY DEF Announced
  <2>2. Same(s, [s EXCEPT !.tc = TcTime, !.new_info = TRUE])
    BY DEF Same, Shape, Fields
  <2> QED BY <1>0, <2>1, <2>2, Zenon
<1> QED BY <1>1, <1>3, <1>4, <1>5, <1>6

\* Receiving a BPDU (stp_rx).
LEMMA ReceivedOk ==
    ASSUME NEW p, NEW s, PortOk(p, s), NEW m \in Bpdu(p)
    PROVE  PortOk(p, stp_rx(p, s, m))
<1> DEFINE v == Vector(m)
           s0 == [s EXCEPT !.edge = FALSE]
           t == Informed(s0, m)
           x == t.rcvd_tc \/ Notices(p, m)
<1>1. v \in Prio /\ v[1] \in Beyond(p) /\ m.age \in Nat
  BY DEF Vector, Bpdu, Prio
<1> HIDE DEF v
<1>2. PortOk(p, s0)
  <2>1. Same(s, s0)
    BY DEF PortOk, Same, Shape, Fields
  <2> QED BY <2>1, SameKeeps
<1> HIDE DEF s0
<1>3. \/ t = s0
      \/ t = [s0 EXCEPT !.rcvd = RcvdTime]
      \/ t = [s0 EXCEPT !.prio = v, !.age = m.age, !.info = "Aged"]
      \/ t = [s0 EXCEPT !.prio = v, !.age = m.age, !.info = "Received", !.rcvd = RcvdTime]
  BY DEF Informed, v
<1>4. PortOk(p, [s0 EXCEPT !.rcvd = RcvdTime])
  BY <1>2 DEF PortOk, Shape, Fields
<1>5. PortOk(p, [s0 EXCEPT !.prio = v, !.age = m.age, !.info = "Aged"])
  BY <1>1, <1>2 DEF PortOk, Shape, Fields
<1>6. PortOk(p, [s0 EXCEPT !.prio = v, !.age = m.age, !.info = "Received", !.rcvd = RcvdTime])
  BY <1>1, <1>2 DEF PortOk, Shape, Fields
<1>7. PortOk(p, t)
  <2> HIDE DEF t
  <2> QED BY <1>2, <1>3, <1>4, <1>5, <1>6
<1>8. stp_rx(p, s, m) = [t EXCEPT !.rcvd_tc = x]
  BY DEF stp_rx, s0
<1> HIDE DEF t, x
<1>9. PortOk(p, [t EXCEPT !.rcvd_tc = x])
  BY <1>7 DEF PortOk, Shape, Fields
<1> QED BY <1>8, <1>9

----------------------------------------------------------------------------
(* A run of the state machine. *)

\* The ports of a bridge, and the numbers that identify bridges and ports.
LEMMA PortFacts ==
    ASSUME net \in DOMAIN Networks
    PROVE  /\ \A p \in Ports : /\ p[1] \in Bridges /\ p[1] \in Nat /\ p[2] \in Nat
                               /\ Peer[p] \in Ports /\ Peer[p][1] \in Bridges
           /\ \A b \in Bridges : b \in Nat /\ PortsOf[b] = {p \in Ports : p[1] = b}
           /\ \A b \in Bridges : RegionIn[net][b] \subseteq Nat /\ b \in RegionIn[net][b]
<1>1. \A p \in Ports : p[1] \in Bridges /\ p[2] \in 1 .. (Infinite - 1)
  <2>1. \A p \in Ports : p[1] \in Bridges /\ p[2] \in 1 .. (Station - 1)
    BY StpAssumption DEF Ports, Bridges
  <2>2. \A x \in 1 .. (Station - 1) : x \in 1 .. (Infinite - 1)
    BY DEF Station, Infinite
  <2> QED BY <2>1, <2>2
<1>2. Bridges \subseteq Nat /\ \A x \in 1 .. (Infinite - 1) : x \in Nat
  <2>1. Bridges \subseteq 1 .. (Infinite - 1)
    BY StpAssumption DEF Bridges
  <2>2. \A x \in 1 .. (Infinite - 1) : x \in Nat
    BY DEF Infinite
  <2> QED BY <2>1, <2>2
<1>3. \A p \in Ports : Peer[p] \in Ports
  BY PeerIs DEF Ports, Peer
<1>4. \A b \in Bridges : PortsOf[b] = {p \in Ports : p[1] = b}
  <2> DEFINE F == [b \in Networks[net].bridges |-> {p \in PortsIn[net] : p[1] = b}]
  <2>1. BridgePortsIn[net] = F
    BY ForcedIs DEF BridgePortsIn
  <2> QED BY <2>1 DEF PortsOf, Ports, Bridges
<1>5. \A b \in Bridges : RegionIn[net][b] \subseteq Bridges /\ b \in RegionIn[net][b]
  BY RegionFacts DEF Bridges
<1> QED BY <1>1, <1>2, <1>3, <1>4, <1>5

\* The root a bridge selects is in its region (stp_reselect).
LEMMA SelectRootOk ==
    ASSUME net \in DOMAIN Networks, NEW b \in Bridges, NEW S, DOMAIN S = PortsOf[b],
           \A p \in PortsOf[b] : PortOk(p, S[p])
    PROVE  SelectRoot(b, S) \in RootRec(b)
<1> DEFINE C == {p \in Candidates(b, S) : Less(Through(S, p), <<b, 0, b, 0>>)}
           best == CHOOSE p \in C : \A q \in C : BetterRoot(S, p, q)
           self == [root |-> b, cost |-> 0, port |-> None, age |-> 0]
           new == [root |-> S[best].prio[1], cost |-> S[best].prio[2] + 1, port |-> best[2],
                   age |-> S[best].age + 1]
<1>1. SelectRoot(b, S) = IF C = {} THEN self ELSE new
  BY DEF SelectRoot
<1>2. self \in RootRec(b)
  BY PortFacts DEF RootRec, None
<1>3. ASSUME C # {} PROVE new \in RootRec(b)
  <2>1. \A p \in C : /\ p \in Ports /\ p[1] = b /\ p \notin RootGuard /\ S[p].info = "Received"
                     /\ S[p].prio \in Prio /\ S[p].age \in Nat /\ p[2] \in Nat
                     /\ S[p].prio[1] \in Beyond(p)
    BY PortFacts DEF Candidates, PortOk, Shape
  <2> HIDE DEF C
  <2>2. \E p \in C : \A q \in C : BetterRoot(S, p, q)
    BY <1>3, <2>1, BestExists
  <2>3. best \in C
    BY <2>2
  <2> HIDE DEF best
  <2>4. Beyond(best) \subseteq RegionIn[net][b]
    BY <2>1, <2>3, RegionGoesOn DEF Beyond, Ports, Peer, RootGuard
  <2>5. /\ S[best].prio[1] \in RegionIn[net][b] /\ S[best].prio[1] \in Nat
        /\ S[best].prio[2] + 1 \in Nat /\ best[2] \in Nat /\ S[best].age + 1 \in Nat
    BY <2>1, <2>3, <2>4 DEF Prio
  <2> QED BY <2>5 DEF RootRec
<1> HIDE DEF C, new, self
<1> QED BY <1>1, <1>2, <1>3

PortsOk(f) == DOMAIN f = Ports /\ \A p \in Ports : PortOk(p, f[p])
BridgesOk(f) == DOMAIN f = Bridges /\ \A b \in Bridges : f[b] \in RootRec(b)
ChannelsOk(c) == DOMAIN c = Ports /\ \A p \in Ports : c[p] \in Seq(Bpdu(p))

\* What a port sends is a BPDU that the port at the other end may receive (stp_tx).
LEMMA SentOk ==
    ASSUME net \in DOMAIN Networks, NEW c, ChannelsOk(c), NEW b \in Bridges, NEW R \in RootRec(b),
           NEW S, \A p \in PortsOf[b] : Shape(S[p]), NEW Q, Q \subseteq PortsOf[b],
           NEW out, out = [p \in Q |-> Message(p, S[p], R)]
    PROVE  ChannelsOk(WithSent(c, out))
<1> DEFINE w == WithSent(c, out)
<1>1. DOMAIN w = Ports
  BY DEF WithSent
<1>2. ASSUME NEW q \in Ports PROVE w[q] \in Seq(Bpdu(q))
  <2> DEFINE p == Peer[q]
  <2>0. c[q] \in Seq(Bpdu(q))
    BY DEF ChannelsOk
  <2>1. CASE p \in DOMAIN out /\ LinkOf[q] \in wire
    <3>1. p \in Q /\ p \in PortsOf[b] /\ p \in Ports /\ p[1] = b /\ p[1] \in Nat /\ p[2] \in Nat
      BY <2>1, PortFacts
    <3>2. w[q] = Append(c[q], out[p]) /\ out[p] = Message(p, S[p], R)
      BY <2>1, <3>1 DEF WithSent
    <3>3. /\ R.root \in Beyond(q) /\ R.root \in Nat /\ R.cost \in Nat /\ R.age \in Nat
          /\ S[p].role \in Roles
      BY <3>1 DEF Beyond, RootRec, Shape
    <3> DEFINE tc == S[p].tc > 0
    <3>4. tc \in BOOLEAN
      OBVIOUS
    <3>5. Message(p, S[p], R) = [root |-> R.root, cost |-> R.cost, bridge |-> p[1], port |-> p[2],
                                 age |-> R.age, role |-> S[p].role, tc |-> tc]
      BY DEF Message
    <3> HIDE DEF tc, p
    <3>6. Message(p, S[p], R) \in Bpdu(q)
      BY <3>1, <3>3, <3>4, <3>5 DEF Bpdu
    <3> QED BY <2>0, <3>2, <3>6
  <2>2. CASE ~(p \in DOMAIN out /\ LinkOf[q] \in wire)
    BY <2>0, <2>2 DEF WithSent
  <2> QED BY <2>1, <2>2
<1> QED BY <1>1, <1>2 DEF ChannelsOk

\* Every run of the state machine keeps the invariant (Bridge::run).
LEMMA RunKeeps ==
    ASSUME net \in DOMAIN Networks, NEW b \in Bridges, PortsOk(port), BridgesOk(bridge),
           NEW P, \A p \in PortsOf[b] : PortOk(p, P[p]), NEW c, ChannelsOk(c), NEW oper, Run(b, P, c, oper)
    PROVE  PortsOk(port') /\ BridgesOk(bridge') /\ ChannelsOk(chan')
<1> DEFINE B == PortsOf[b]
<1>0. PICK S1, R, S2, S3 :
          /\ S1 = [p \in B |-> Refreshed(p, P[p], oper)]
          /\ R = SelectRoot(b, S1)
          /\ S2 = [p \in B |-> Selected(p, S1[p], R)]
          /\ S3 = [p \in B |-> Stepped(S2[p])]
          /\ Conclude(b, P, c, oper, R, S2, S3)
  BY DEF Run
<1> DEFINE detected == {p \in B :
                           S2[p].state # "Forwarding" /\ S3[p].state = "Forwarding" /\ ~S3[p].edge}
           received == {p \in B : S3[p].rcvd_tc /\ S3[p].role \in {"Root", "Designated"}}
<1>1. PICK S4 \in {[p \in B |-> Announced(p, [S3[p] EXCEPT !.rcvd_tc = FALSE], detected, received)]} :
             /\ port' = [p \in Ports |-> IF p[1] = b THEN Sent(S4[p]) ELSE port[p]]
             /\ bridge' = [bridge EXCEPT ![b] = R]
             /\ chan' = WithSent(c, [p \in {q \in B : Says(S4[q])} |-> Message(p, S4[p], R)])
  BY <1>0, Zenon DEF Conclude
<1> HIDE DEF detected, received
<1> DEFINE Q == {q \in B : Says(S4[q])}
<1>2. \A p \in B : p \in Ports /\ p[1] \in Nat /\ p[2] \in Nat
  BY PortFacts
<1>3. DOMAIN S1 = B /\ \A p \in B : PortOk(p, S1[p])
  BY <1>0, RefreshedOk
<1>4. R \in RootRec(b)
  BY <1>0, <1>3, SelectRootOk
<1>5. R.root \in Nat /\ R.cost \in Nat /\ R.age \in Nat
  BY <1>4 DEF RootRec
<1>6. \A p \in B : PortOk(p, S2[p])
  BY <1>0, <1>2, <1>3, <1>5, SelectedOk
<1>7. ASSUME NEW p, NEW s, PortOk(p, s) PROVE PortOk(p, Stepped(s)) /\ PortOk(p, Sent(s)) /\ PortOk(p, [s EXCEPT !.rcvd_tc = FALSE])
  <2>1. Same(s, Stepped(s)) /\ Same(s, Sent(s)) /\ Same(s, [s EXCEPT !.rcvd_tc = FALSE])
    BY <1>7, OthersKeep DEF PortOk
  <2> QED BY <1>7, <2>1, SameKeeps
<1>8. ASSUME NEW p, NEW s, PortOk(p, s), NEW D, NEW X PROVE PortOk(p, Announced(p, s, D, X))
  <2>1. Same(s, Announced(p, s, D, X))
    BY <1>8, OthersKeep DEF PortOk
  <2> QED BY <1>8, <2>1, SameKeeps
<1>9. \A p \in B : PortOk(p, S3[p])
  BY <1>0, <1>6, <1>7
<1>10. \A p \in B : PortOk(p, S4[p])
  <2>1. \A p \in B : S4[p] = Announced(p, [S3[p] EXCEPT !.rcvd_tc = FALSE], detected, received)
    BY <1>1
  <2> TAKE p \in B
  <2> DEFINE s == [S3[p] EXCEPT !.rcvd_tc = FALSE]
  <2>2. PortOk(p, s)
    BY <1>7, <1>9
  <2>3. S4[p] = Announced(p, s, detected, received)
    BY <2>1
  <2> HIDE DEF s
  <2> QED BY <1>8, <2>2, <2>3
<1>11. PortsOk(port')
  <2>1. ASSUME NEW p \in Ports PROVE PortOk(p, port'[p])
    <3>1. CASE p[1] = b
      <4>1. p \in B /\ port'[p] = Sent(S4[p])
        <5>1. p \in B
          BY <3>1, PortFacts
        <5>2. port'[p] = Sent(S4[p])
          BY <1>1, <3>1
        <5> QED BY <5>1, <5>2
      <4> DEFINE s == S4[p]
      <4>2. PortOk(p, s)
        BY <1>10, <4>1
      <4> HIDE DEF s
      <4>3. PortOk(p, Sent(s))
        BY <1>7, <4>2
      <4> QED BY <4>1, <4>3 DEF s
    <3>2. CASE p[1] # b
      BY <1>1, <3>2 DEF PortsOk
    <3> QED BY <3>1, <3>2
  <2> QED BY <1>1, <2>1 DEF PortsOk
<1>12. BridgesOk(bridge')
  BY <1>1, <1>4 DEF BridgesOk
<1>13. ChannelsOk(chan')
  <2>1. Q \subseteq PortsOf[b] /\ \A p \in PortsOf[b] : Shape(S4[p])
    BY <1>10 DEF PortOk
  <2> DEFINE out == [p \in Q |-> Message(p, S4[p], R)]
  <2>2. chan' = WithSent(c, out)
    BY <1>1
  <2> HIDE DEF Q
  <2>3. ChannelsOk(WithSent(c, out))
    BY <1>4, <2>1, SentOk
  <2> HIDE DEF out
  <2> QED BY <2>2, <2>3
<1> QED BY <1>11, <1>12, <1>13

----------------------------------------------------------------------------
(* The invariant. *)

Inv == /\ net \in DOMAIN Networks
       /\ PortsOk(port) /\ BridgesOk(bridge) /\ ChannelsOk(chan)

\* A network just switched on.
LEMMA InitHolds ==
    ASSUME Init
    PROVE  Inv
<1>1. net \in DOMAIN Networks
  BY DEF Init
<1>2. PortsOk(port)
  BY NewPortOk DEF Init, PortsOk
<1>3. BridgesOk(bridge)
  <2>1. \A b \in Bridges : [root |-> b, cost |-> 0, port |-> None, age |-> 0] \in RootRec(b)
    BY <1>1, PortFacts DEF RootRec, None
  <2> QED BY <2>1 DEF Init, BridgesOk
<1>4. ChannelsOk(chan)
  BY DEF Init, ChannelsOk
<1> QED BY <1>1, <1>2, <1>3, <1>4 DEF Inv

\* Taking a BPDU from a channel leaves BPDUs, and what is taken is one.
LEMMA TakenOk ==
    ASSUME NEW c, ChannelsOk(c), NEW p \in Ports, c[p] # <<>>
    PROVE  ChannelsOk(Taken(c, p)) /\ Head(c[p]) \in Bpdu(p)
<1>1. c[p] \in Seq(Bpdu(p)) /\ DOMAIN c = Ports
  BY DEF ChannelsOk
<1> DEFINE s == c[p]
           B == Bpdu(p)
<1>2. s \in Seq(B) /\ s # <<>>
  BY <1>1
<1> HIDE DEF s, B
<1>3. Head(s) \in B /\ Tail(s) \in Seq(B)
  BY <1>2, HeadTailProperties
<1>4. Taken(c, p) = [c EXCEPT ![p] = Tail(s)]
  BY DEF Taken, s
<1>5. \A q \in Ports : Taken(c, p)[q] \in Seq(Bpdu(q))
  <2> TAKE q \in Ports
  <2>1. CASE q = p
    BY <1>1, <1>3, <1>4, <2>1 DEF B
  <2>2. CASE q # p
    BY <1>1, <1>4, <2>2 DEF ChannelsOk
  <2> QED BY <2>1, <2>2
<1>6. DOMAIN Taken(c, p) = Ports
  BY <1>1, <1>4
<1> QED BY <1>3, <1>5, <1>6 DEF ChannelsOk, s, B

\* A run for a port that has noticed carrier or its loss, was guarded, or whose bridge polls.
LEMMA PlainRun ==
    ASSUME Inv, NEW b \in Bridges, NEW c, ChannelsOk(c), NEW oper, Run(b, port, c, oper)
    PROVE  PortsOk(port') /\ BridgesOk(bridge') /\ ChannelsOk(chan')
<1>1. \A p \in PortsOf[b] : PortOk(p, port[p])
  BY PortFacts DEF Inv, PortsOk
<1> QED BY <1>1, RunKeeps DEF Inv

\* Receiving a BPDU (rx_bpdu).
LEMMA ReceiveKeeps ==
    ASSUME Inv, NEW p \in Ports, Receive(p)
    PROVE  PortsOk(port') /\ BridgesOk(bridge') /\ ChannelsOk(chan')
<1> DEFINE P == [port EXCEPT ![p] = stp_rx(p, port[p], Head(chan[p]))]
           c == Taken(chan, p)
<1>1. net \in DOMAIN Networks /\ PortsOk(port) /\ BridgesOk(bridge) /\ ChannelsOk(chan) /\ chan[p] # <<>>
  BY DEF Inv, Receive
<1>2. ChannelsOk(c) /\ Head(chan[p]) \in Bpdu(p)
  BY <1>1, TakenOk
<1>3. PortOk(p, stp_rx(p, port[p], Head(chan[p])))
  BY <1>1, <1>2, ReceivedOk DEF PortsOk
<1>4. PortsOk(P)
  <2> DEFINE s == stp_rx(p, port[p], Head(chan[p]))
  <2> HIDE DEF s
  <2>1. PortOk(p, s)
    BY <1>3 DEF s
  <2>2. P = [port EXCEPT ![p] = s]
    BY DEF s
  <2> HIDE DEF P
  <2> QED BY <1>1, <2>1, <2>2 DEF PortsOk
<1>5. \/ Run(p[1], P, c, link_up \ off)
      \/ port' = P /\ chan' = c /\ bridge' = bridge
  BY DEF Receive
<1>6. p[1] \in Bridges /\ \A q \in PortsOf[p[1]] : q \in Ports
  BY <1>1, PortFacts
<1> HIDE DEF P, c
<1>7. \A q \in PortsOf[p[1]] : PortOk(q, P[q])
  BY <1>4, <1>6 DEF PortsOk
<1>8. CASE Run(p[1], P, c, link_up \ off)
  BY <1>1, <1>2, <1>6, <1>7, <1>8, RunKeeps
<1>9. CASE port' = P /\ chan' = c /\ bridge' = bridge
  BY <1>1, <1>2, <1>4, <1>9
<1> QED BY <1>5, <1>8, <1>9

\* Time passing.
LEMMA TickKeeps ==
    ASSUME Inv, Tick
    PROVE  PortsOk(port')
<1>1. ASSUME NEW p \in Ports PROVE PortOk(p, port'[p])
  <2> DEFINE s == port[p]
             r == IF s.rcvd > 0 THEN s.rcvd - 1 ELSE 0
             f == IF s.fd > 0 THEN s.fd - 1 ELSE s.fd
             t == IF s.tc > 0 THEN s.tc - 1 ELSE 0
             n == [s EXCEPT !.rcvd = r, !.fd = f, !.tc = t, !.hello = TRUE, !.tx = 0]
  <2>1. port'[p] = s \/ port'[p] = n
    BY DEF Tick
  <2>2. PortOk(p, s)
    BY DEF Inv, PortsOk
  <2> HIDE DEF r, f, t, s
  <2>3. Same(s, n)
    BY <2>2 DEF Same, PortOk, Shape, Fields
  <2> HIDE DEF n
  <2> QED BY <2>1, <2>2, <2>3, SameKeeps
<1> QED BY <1>1 DEF PortsOk, Tick

\* Every step keeps the inductive invariant.
LEMMA StepKeeps ==
    ASSUME Inv, [Next]_vars
    PROVE  Inv'
<1> DEFINE Kept == PortsOk(port') /\ BridgesOk(bridge') /\ ChannelsOk(chan')
<1>0. net \in DOMAIN Networks /\ PortsOk(port) /\ BridgesOk(bridge) /\ ChannelsOk(chan)
  BY DEF Inv
<1>1. net' = net
  BY DEF Next, System, vars, set_link, Ignore, Guarded, Receive, Poll, Tick, StationSends, Carrier, Lose
<1>2. \A p \in Ports : p[1] \in Bridges
  BY <1>0, PortFacts
<1>3. ASSUME NEW p \in Ports, set_link(p) PROVE Kept
  BY <1>0, <1>2, <1>3, PlainRun DEF set_link
<1>4. ASSUME NEW p \in Ports, Ignore(p) PROVE Kept
  BY <1>0, <1>4, TakenOk DEF Ignore
<1>5. ASSUME NEW p \in Ports, Guarded(p) PROVE Kept
  <2>1. ChannelsOk(Taken(chan, p))
    BY <1>0, <1>5, TakenOk DEF Guarded
  <2> QED BY <1>2, <1>5, <2>1, PlainRun DEF Guarded
<1>6. ASSUME NEW p \in Ports, Receive(p) PROVE Kept
  BY <1>6, ReceiveKeeps
<1>7. ASSUME NEW b \in Bridges, Poll(b) PROVE Kept
  BY <1>0, <1>7, PlainRun DEF Poll
<1>8. ASSUME Tick PROVE Kept
  <2>1. bridge' = bridge /\ chan' = chan
    BY <1>8 DEF Tick
  <2> QED BY <1>0, <1>8, <2>1, TickKeeps
<1>9. ASSUME StationSends PROVE Kept
  <2>1. port' = port /\ bridge' = bridge /\ chan' = chan
    BY <1>9 DEF StationSends
  <2> QED BY <1>0, <2>1
<1>10. ASSUME NEW l \in Links, Carrier(l) PROVE Kept
  <2>1. \A p \in Ports : chan'[p] = <<>> \/ chan'[p] = chan[p]
    BY <1>10 DEF Carrier
  <2>2. DOMAIN chan' = Ports /\ port' = port /\ bridge' = bridge
    BY <1>10 DEF Carrier
  <2>3. \A p \in Ports : chan[p] \in Seq(Bpdu(p)) /\ <<>> \in Seq(Bpdu(p))
    BY <1>0 DEF ChannelsOk
  <2>4. ChannelsOk(chan')
    BY <2>1, <2>2, <2>3 DEF ChannelsOk
  <2> QED BY <1>0, <2>2, <2>4
<1>11. ASSUME NEW p \in Ports, Lose(p) PROVE Kept
  BY <1>0, <1>11, TakenOk DEF Lose
<1>12. ASSUME UNCHANGED vars PROVE Kept
  <2>1. port' = port /\ bridge' = bridge /\ chan' = chan
    BY <1>12 DEF vars
  <2> QED BY <1>0, <2>1
<1>13. Kept
  <2> HIDE DEF Kept
  <2>1. CASE System
    BY <1>3, <1>4, <1>5, <1>6, <1>7, <1>8, <2>1 DEF System
  <2> QED BY <1>9, <1>10, <1>11, <1>12, <2>1 DEF Next
<1> QED BY <1>0, <1>1, <1>13
        DEF Inv, PortsOk, BridgesOk, ChannelsOk, PortOk, Beyond, Bpdu, RootRec, Ports, Bridges, Peer, Shape

\* The inductive invariant holds in every reachable state.
LEMMA Invariance ==
    Spec => []Inv
BY InitHolds, StepKeeps, PTL DEF Spec

\* Root guard protects a region (stp_reselect, stp_tx, stp_rx): whatever is sent, lost, delayed,
\* plugged in or pulled, in any network, no bridge inside a region whose borders are guarded
\* ever follows a root from outside.
THEOREM GuardedRegion == Spec => []RootStaysInside
<1>1. Inv => RootStaysInside
  BY DEF Inv, BridgesOk, RootRec, RootStaysInside
<1> QED BY <1>1, Invariance, PTL
============================================================================
