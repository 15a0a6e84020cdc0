----------------------------- MODULE NatProofs -----------------------------
(***************************************************************************)
(* Proofs about Nat, for any hosts, peers, ports, table size and timeouts. *)
(***************************************************************************)
EXTENDS Nat, WellFoundedInduction, FiniteSetTheorems, SequenceTheorems, TLAPS

\* A bounded search that succeeds has a least result.
LEMMA LeastExists ==
    ASSUME NEW T \in SUBSET Nat, T # {}
    PROVE  \E x \in T : \A y \in T : x <= y
<1> DEFINE R == OpToRel(<, Nat)
<1>1. PICK x \in T : \A y \in T : ~(<<y, x>> \in R)
  <2>1. IsWellFoundedOn(R, Nat)
    BY NatLessThanWellFounded
  <2> HIDE DEF R
  <2> QED BY <2>1, WFMin
<1>2. \A y \in T : y \in Nat /\ x \in Nat /\ ~(y < x)
  BY <1>1 DEF OpToRel
<1> QED BY <1>2

Phases == {"opening", "established", "closing"}
FlowPhases == {"partial", "opening", "established", "closing"}
Mapping == [protocol: Protocols, inside: Hosts, port: Ports, outside: Addresses,
            external: DynamicPorts, ttl: Nat, phase: Phases]
Flow == [protocol: Protocols, peer: Peers \union Addresses, inside: Hosts, port: Ports,
         outside: Addresses, external: Nat \ {0}, idle: Nat, phase: FlowPhases, alone: BOOLEAN]

Unique(ms) == \A m, k \in ms :
    (/\ m.protocol = k.protocol /\ m.outside = k.outside
     /\ \/ m.external = k.external
        \/ m.inside = k.inside /\ m.port = k.port) => m = k

\* What every operation keeps of a table.
Table(ms) == ms \in SUBSET Mapping /\ IsFiniteSet(ms) /\ Unique(ms) /\ Cardinality(ms) <= MAX_MAPPINGS

-----------------------------------------------------------------------------
(* Timers and phases. *)

\* Every packet leaves a TCP phase in its type.
LEMMA PhaseType ==
    ASSUME NEW pr \in Protocols, NEW ph \in Phases, NEW kind \in Kinds(pr)
    PROVE  phase_after(ph, kind) \in Phases
<1>1. kind \in {"SYN", "ACK", "FIN", "DATA"}
  BY DEF Kinds
<1> QED BY <1>1 DEF phase_after, Phases

\* Every packet leaves the phase of a flow in its type.
LEMMA FlowPhaseType ==
    ASSUME NEW pr \in Protocols, NEW ph \in FlowPhases, NEW kind \in Kinds(pr)
    PROVE  flow_phase(ph, kind) \in FlowPhases
<1>1. kind \in {"SYN", "ACK", "FIN", "DATA"}
  BY DEF Kinds
<1> QED BY <1>1 DEF flow_phase, phase_after, FlowPhases

\* No packet leaves a mapping less time than the shortest timeout of its protocol.
LEMMA TimeoutBound ==
    ASSUME NEW pr \in Protocols, NEW ph \in Phases
    PROVE  /\ timeout(pr, ph) \in Nat \ {0}
           /\ timeout(pr, "opening") \in Nat \ {0}
           /\ timeout(pr, "opening") <= timeout(pr, ph)
<1>1. pr \in {"udp", "tcp", "icmp"}
  BY NatAssumption
<1>2. CASE pr = "udp"
  BY <1>2, NatAssumption DEF timeout
<1>3. CASE pr = "icmp"
  BY <1>3, NatAssumption DEF timeout
<1>4. CASE pr = "tcp"
  BY <1>4, NatAssumption DEF timeout
<1> QED BY <1>1, <1>2, <1>3, <1>4

\* A touched mapping is the same translation, with at least the shortest timeout left.
LEMMA TouchKeeps ==
    ASSUME NEW m \in Mapping, NEW kind \in Kinds(m.protocol)
    PROVE  /\ touch(m, kind) \in Mapping
           /\ touch(m, kind).protocol = m.protocol /\ touch(m, kind).inside = m.inside
           /\ touch(m, kind).port = m.port /\ touch(m, kind).outside = m.outside
           /\ touch(m, kind).external = m.external
           /\ touch(m, kind).ttl >= timeout(m.protocol, "opening")
<1> DEFINE ph == phase_after(m.phase, kind)
<1>1. m.protocol \in Protocols /\ m.phase \in Phases
  BY DEF Mapping
<1>2. ph \in Phases
  BY <1>1, PhaseType
<1>3. timeout(m.protocol, ph) \in Nat /\ timeout(m.protocol, ph) >= timeout(m.protocol, "opening")
      /\ timeout(m.protocol, "opening") \in Nat
  BY <1>1, <1>2, TimeoutBound
<1>4. touch(m, kind) = [m EXCEPT !.phase = ph, !.ttl = timeout(m.protocol, ph)]
  BY DEF touch
<1> HIDE DEF ph
<1> QED BY <1>2, <1>3, <1>4 DEF Mapping

-----------------------------------------------------------------------------
(* The table. *)

\* Expiry only removes.
LEMMA ExpireKeeps ==
    ASSUME NEW ms, Table(ms)
    PROVE  Table(expire(ms))
<1>1. expire(ms) \in SUBSET ms
  BY DEF expire
<1>2. IsFiniteSet(ms) /\ Cardinality(ms) <= MAX_MAPPINGS
  BY DEF Table
<1>3. IsFiniteSet(expire(ms)) /\ Cardinality(expire(ms)) <= Cardinality(ms)
  BY <1>1, <1>2, FS_Subset
<1>4. Cardinality(ms) \in Nat /\ Cardinality(expire(ms)) \in Nat /\ MAX_MAPPINGS \in Nat
  BY <1>2, <1>3, FS_CardinalityType, NatAssumption
<1>5. Cardinality(expire(ms)) <= MAX_MAPPINGS
  BY <1>2, <1>3, <1>4
<1> QED BY <1>1, <1>3, <1>5 DEF Table, Unique

\* A table whose entries are replaced one by one by entries for the same translation.
LEMMA ImageKeeps ==
    ASSUME NEW ms, Table(ms), NEW g \in [ms -> Mapping],
           \A m \in ms : /\ g[m].protocol = m.protocol /\ g[m].inside = m.inside
                         /\ g[m].port = m.port /\ g[m].outside = m.outside
                         /\ g[m].external = m.external
    PROVE  Table({g[m] : m \in ms})
<1> DEFINE im == {g[m] : m \in ms}
<1>1. IsFiniteSet(im) /\ Cardinality(im) <= Cardinality(ms)
  <2>1. g \in Surjection(ms, im)
    BY DEF Surjection
  <2>2. IsFiniteSet(ms)
    BY DEF Table
  <2> HIDE DEF im
  <2> QED BY <2>1, <2>2, FS_Surjection
<1>2. Cardinality(ms) \in Nat /\ Cardinality(im) \in Nat /\ MAX_MAPPINGS \in Nat
  BY <1>1, FS_CardinalityType, NatAssumption DEF Table
<1>3. Cardinality(im) <= MAX_MAPPINGS
  BY <1>1, <1>2 DEF Table
<1>4. im \in SUBSET Mapping
  OBVIOUS
<1>5. Unique(im)
  <2> SUFFICES ASSUME NEW m \in ms, NEW k \in ms,
                      g[m].protocol = g[k].protocol, g[m].outside = g[k].outside,
                      \/ g[m].external = g[k].external
                      \/ g[m].inside = g[k].inside /\ g[m].port = g[k].port
               PROVE  g[m] = g[k]
    BY DEF Unique
  <2>1. m = k
    BY DEF Table, Unique
  <2> QED BY <2>1
<1> QED BY <1>1, <1>3, <1>4, <1>5 DEF Table

\* A packet from outside renews entries and changes nothing else.
LEMMA InboundKeeps ==
    ASSUME NEW ms, Table(ms), NEW pr \in Protocols, NEW out, NEW n, NEW kind \in Kinds(pr)
    PROVE  Table(inbound_table(ms, pr, out, n, kind))
<1> DEFINE g == [m \in ms |-> IF m \in mapping_to(ms, pr, out, n) THEN touch(m, kind) ELSE m]
<1>1. \A m \in ms : /\ g[m] \in Mapping
                    /\ g[m].protocol = m.protocol /\ g[m].inside = m.inside
                    /\ g[m].port = m.port /\ g[m].outside = m.outside
                    /\ g[m].external = m.external
  <2> TAKE m \in ms
  <2>1. m \in Mapping
    BY DEF Table
  <2>2. CASE m \in mapping_to(ms, pr, out, n)
    <3>1. m.protocol = pr
      BY <2>2 DEF mapping_to
    <3>2. g[m] = touch(m, kind)
      BY <2>2
    <3> QED BY <2>1, <3>1, <3>2, TouchKeeps
  <2>3. CASE m \notin mapping_to(ms, pr, out, n)
    BY <2>1, <2>3
  <2> QED BY <2>2, <2>3
<1>2. g \in [ms -> Mapping]
  BY <1>1
<1>3. Table({g[m] : m \in ms})
  <2> HIDE DEF g
  <2> QED BY <1>1, <1>2, ImageKeeps
<1>4. {g[m] : m \in ms} = {IF m \in mapping_to(ms, pr, out, n) THEN touch(m, kind) ELSE m : m \in ms}
  OBVIOUS
<1> QED BY <1>3, <1>4 DEF inbound_table

\* Time changes nothing but the time left.
LEMMA TickKeeps ==
    ASSUME NEW ms, Table(ms)
    PROVE  Table({[m EXCEPT !.ttl = IF @ = 0 THEN 0 ELSE @ - 1] : m \in ms})
<1> DEFINE g == [m \in ms |-> [m EXCEPT !.ttl = IF @ = 0 THEN 0 ELSE @ - 1]]
<1>1. \A m \in ms : /\ g[m] \in Mapping
                    /\ g[m].protocol = m.protocol /\ g[m].inside = m.inside
                    /\ g[m].port = m.port /\ g[m].outside = m.outside
                    /\ g[m].external = m.external
  BY DEF Mapping, Table
<1>2. g \in [ms -> Mapping]
  BY <1>1
<1>3. Table({g[m] : m \in ms})
  <2> HIDE DEF g
  <2> QED BY <1>1, <1>2, ImageKeeps
<1>4. {g[m] : m \in ms} = {[m EXCEPT !.ttl = IF @ = 0 THEN 0 ELSE @ - 1] : m \in ms}
  OBVIOUS
<1> QED BY <1>3, <1>4

\* The search takes a free port when there is one, whatever the cursor: the least distance
\* ahead of it is reached.
LEMMA NearestFree ==
    ASSUME next \in DynamicPorts, NEW S \in SUBSET DynamicPorts, S # {}
    PROVE  nearest(S) \in S
<1> DEFINE D == {ahead(n) : n \in S}
<1>1. \A n \in S : ahead(n) \in Nat
  BY NatAssumption DEF ahead, DynamicPorts
<1>2. D \in SUBSET Nat /\ D # {}
  BY <1>1
<1>3. \E d \in D : \A e \in D : d <= e
  <2> HIDE DEF D
  <2> QED BY <1>2, LeastExists
<1>4. \E n \in S : \A k \in S : ahead(n) <= ahead(k)
  BY <1>3
<1> QED BY <1>4 DEF nearest

\* The well-formed list of forwards.
Statics ==
    /\ forwards \in Seq(Forwards)
    /\ \A i, j \in DOMAIN forwards :
           forwards[i].protocol = forwards[j].protocol
           /\ forwards[i].outside_port = forwards[j].outside_port => i = j

\* The fields of a forward.
LEMMA ForwardType ==
    ASSUME Statics, NEW i \in DOMAIN forwards
    PROVE  /\ forwards[i] \in Forwards /\ forwards[i].protocol \in Protocols
           /\ forwards[i].inside \in Hosts /\ forwards[i].inside_port \in Ports
           /\ forwards[i].outside_port \in Nat \ {0} /\ i \in Nat
<1>1. forwards[i] \in Forwards /\ i \in Nat
  BY DEF Statics
<1>2. forwards[i] \in [protocol: Protocols \ {"icmp"}, inside: Hosts,
                       inside_port: Ports, outside_port: Nat \ {0}]
  BY <1>1, NatAssumption
<1> QED BY <1>1, <1>2

\* A search of the forwards that has a match has a first one.
LEMMA FoundOne ==
    ASSUME Statics, NEW S \in SUBSET DOMAIN forwards, S # {}
    PROVE  \E i \in found(S) : TRUE
<1>1. S \in SUBSET Nat
  BY ForwardType
<1>2. \E i \in S : \A j \in S : i <= j
  BY <1>1, LeastExists
<1> QED BY <1>2 DEF found

\* What Nat::outbound does: it fails and changes nothing, uses the first forward of the
\* sender, renews the sender's mapping, or adds one for it on a free port.
LEMMA OutboundCases ==
    ASSUME NEW ms, Table(ms), Statics, next \in DynamicPorts,
           NEW pr \in Protocols, NEW h \in Hosts, NEW p \in Ports,
           NEW out \in Addresses \union {NoAddress}, NEW kind \in Kinds(pr),
           NEW r, r = outbound(ms, pr, h, p, out, kind)
    PROVE  \/ r.port = 0 /\ r.mappings = ms /\ r.next = next
           \/ /\ out \in Addresses
              /\ r.mappings = ms /\ r.next = next
              /\ \E i \in found(forward_of(pr, h, p)) : r.port = forwards[i].outside_port
           \/ /\ out \in Addresses
              /\ forward_of(pr, h, p) = {}
              /\ r.next = next
              /\ \E m \in mapping_of(ms, pr, h, p, out) :
                     r.port = m.external /\ r.mappings = (ms \ {m}) \union {touch(m, kind)}
           \/ /\ out \in Addresses
              /\ forward_of(pr, h, p) = {}
              /\ mapping_of(ms, pr, h, p, out) = {}
              /\ Cardinality(ms) < MAX_MAPPINGS
              /\ r.port \in free(ms, pr, h, out)
              /\ r.next = advance(r.port)
              /\ r.mappings = ms \union {touch(NewMapping(pr, h, p, out, r.port), kind)}
<1> DEFINE static == forward_of(pr, h, p)
           known == mapping_of(ms, pr, h, p, out)
           ports == free(ms, pr, h, out)
<1>1. CASE out = NoAddress
  BY <1>1 DEF Drop, outbound
<1>2. CASE out # NoAddress /\ static # {}
  <2>1. static \in SUBSET DOMAIN forwards
    BY DEF forward_of
  <2> DEFINE i == CHOOSE i \in found(static) : TRUE
  <2>2. i \in found(static)
    BY <1>2, <2>1, FoundOne
  <2>3. r = [port |-> forwards[i].outside_port, mappings |-> ms, next |-> next]
    BY <1>2 DEF outbound
  <2> HIDE DEF i
  <2>4. r.port = forwards[i].outside_port /\ r.mappings = ms /\ r.next = next
    BY <2>3
  <2> QED BY <1>2, <2>2, <2>4
<1>3. CASE out # NoAddress /\ static = {} /\ known # {}
  <2> DEFINE m == CHOOSE m \in known : TRUE
  <2>1. m \in known
    BY <1>3
  <2>2. r = [port |-> m.external, mappings |-> (ms \ {m}) \union {touch(m, kind)}, next |-> next]
    BY <1>3 DEF outbound
  <2> HIDE DEF m
  <2>3. r.port = m.external /\ r.mappings = (ms \ {m}) \union {touch(m, kind)} /\ r.next = next
    BY <2>2
  <2> QED BY <1>3, <2>1, <2>3
<1>4. CASE out # NoAddress /\ static = {} /\ known = {}
           /\ (Cardinality(ms) >= MAX_MAPPINGS \/ ports = {})
  BY <1>4 DEF Drop, outbound
<1>5. CASE out # NoAddress /\ static = {} /\ known = {}
           /\ ~(Cardinality(ms) >= MAX_MAPPINGS) /\ ports # {}
  <2> DEFINE n == nearest(ports)
  <2>1. ports \in SUBSET DynamicPorts
    BY DEF free
  <2>2. n \in ports
    BY <1>5, <2>1, NearestFree
  <2>3. r = [port |-> n, mappings |-> ms \union {touch(NewMapping(pr, h, p, out, n), kind)},
             next |-> advance(n)]
    BY <1>5 DEF outbound
  <2>4. Cardinality(ms) \in Nat /\ MAX_MAPPINGS \in Nat
    BY FS_CardinalityType, NatAssumption DEF Table
  <2> HIDE DEF n
  <2> QED BY <1>5, <2>2, <2>3, <2>4
<1> QED BY <1>1, <1>2, <1>3, <1>4, <1>5

\* Translation of a packet from inside keeps the table well-formed.
LEMMA OutboundKeeps ==
    ASSUME NEW ms, Table(ms), Statics, next \in DynamicPorts,
           NEW pr \in Protocols, NEW h \in Hosts, NEW p \in Ports,
           NEW out \in Addresses \union {NoAddress}, NEW kind \in Kinds(pr),
           NEW r, r = outbound(ms, pr, h, p, out, kind)
    PROVE  Table(r.mappings) /\ r.next \in DynamicPorts /\ r.port \in Nat
           /\ (r.port # 0 => out \in Addresses)
<1>1. CASE r.port = 0 /\ r.mappings = ms /\ r.next = next
  BY <1>1
<1>2. CASE /\ out \in Addresses /\ r.mappings = ms /\ r.next = next
           /\ \E i \in found(forward_of(pr, h, p)) : r.port = forwards[i].outside_port
  BY <1>2, ForwardType DEF found, forward_of
<1>3. CASE /\ out \in Addresses /\ r.next = next
           /\ \E m \in mapping_of(ms, pr, h, p, out) :
                  r.port = m.external /\ r.mappings = (ms \ {m}) \union {touch(m, kind)}
  <2>1. PICK m \in ms : /\ m.protocol = pr /\ r.port = m.external
                        /\ r.mappings = (ms \ {m}) \union {touch(m, kind)}
    BY <1>3 DEF mapping_of
  <2> DEFINE g == [k \in ms |-> IF k = m THEN touch(m, kind) ELSE k]
  <2>2. \A k \in ms : k \in Mapping
    BY DEF Table
  <2>3. \A k \in ms : /\ g[k] \in Mapping
                      /\ g[k].protocol = k.protocol /\ g[k].inside = k.inside
                      /\ g[k].port = k.port /\ g[k].outside = k.outside
                      /\ g[k].external = k.external
    BY <2>1, <2>2, TouchKeeps
  <2>4. g \in [ms -> Mapping]
    BY <2>3
  <2>5. Table({g[k] : k \in ms})
    <3> HIDE DEF g
    <3> QED BY <2>3, <2>4, ImageKeeps
  <2>6. {g[k] : k \in ms} = (ms \ {m}) \union {touch(m, kind)}
    OBVIOUS
  <2>7. r.port \in Nat
    BY <2>1, <2>2, NatAssumption DEF Mapping, DynamicPorts
  <2> QED BY <1>3, <2>1, <2>5, <2>6, <2>7
<1>4. CASE /\ out \in Addresses
           /\ mapping_of(ms, pr, h, p, out) = {}
           /\ Cardinality(ms) < MAX_MAPPINGS
           /\ r.port \in free(ms, pr, h, out)
           /\ r.next = advance(r.port)
           /\ r.mappings = ms \union {touch(NewMapping(pr, h, p, out, r.port), kind)}
  <2> DEFINE new == NewMapping(pr, h, p, out, r.port)
             t == touch(new, kind)
  <2>1. r.port \in DynamicPorts /\ mapping_to(ms, pr, out, r.port) = {}
    BY <1>4 DEF free
  <2>2. new \in Mapping /\ new.protocol = pr
    BY <1>4, <2>1 DEF NewMapping, Mapping, Phases
  <2>3. /\ t \in Mapping /\ t.protocol = pr /\ t.inside = h /\ t.port = p /\ t.outside = out
        /\ t.external = r.port
    BY <2>2, TouchKeeps DEF NewMapping
  <2>4. r.mappings = ms \union {t}
    BY <1>4
  <2> HIDE DEF t, new
  <2>5. Unique(ms \union {t})
    BY <1>4, <2>1, <2>3 DEF Unique, Table, mapping_of, mapping_to
  <2>6. IsFiniteSet(ms) /\ Cardinality(ms) \in Nat /\ MAX_MAPPINGS \in Nat
    BY FS_CardinalityType, NatAssumption DEF Table
  <2>7. IsFiniteSet(ms \union {t}) /\ Cardinality(ms \union {t}) <= MAX_MAPPINGS
    <3>1. /\ IsFiniteSet(ms \union {t})
          /\ Cardinality(ms \union {t}) = IF t \in ms THEN Cardinality(ms) ELSE Cardinality(ms) + 1
      BY <2>6, FS_AddElement
    <3> QED BY <1>4, <2>6, <3>1
  <2>8. Table(r.mappings)
    BY <2>3, <2>4, <2>5, <2>7 DEF Table
  <2>9. r.next \in DynamicPorts /\ r.port \in Nat
    BY <1>4, <2>1, NatAssumption DEF advance, DynamicPorts
  <2> QED BY <1>4, <2>8, <2>9
<1> QED BY <1>1, <1>2, <1>3, <1>4, OutboundCases

-----------------------------------------------------------------------------
(* Flows and what carries them. *)

\* The flow's port is a forward to its inside endpoint.
StaticFlow(f) == \E i \in DOMAIN forwards :
    /\ forwards[i].protocol = f.protocol /\ forwards[i].outside_port = f.external
    /\ forwards[i].inside = f.inside /\ forwards[i].inside_port = f.port

\* A mapping that stands for the flow and outlives the flow's shortest timeout.
Carries(m, f) ==
    /\ m.protocol = f.protocol /\ m.inside = f.inside /\ m.port = f.port
    /\ m.outside = f.outside /\ m.external = f.external
    /\ m.ttl + f.idle >= timeout(f.protocol, "opening")

Mapped(f, ms) ==
    /\ f.external \in DynamicPorts
    /\ forward_of(f.protocol, f.inside, f.port) = {}
    /\ f.idle < timeout(f.protocol, "opening") => \E m \in ms : Carries(m, f)

Backed(fs, ms) == \A f \in fs : StaticFlow(f) \/ Mapped(f, ms)

\* The same flow, whether or not it is alone.
Like(g, f) ==
    /\ g.protocol = f.protocol /\ g.peer = f.peer /\ g.inside = f.inside /\ g.port = f.port
    /\ g.outside = f.outside /\ g.external = f.external /\ g.idle = f.idle /\ g.phase = f.phase

\* A packet of another flow takes nothing from a flow but being alone.
LEMMA DisturbIs ==
    ASSUME NEW fs \in SUBSET Flow, NEW pr, NEW peer, NEW h, NEW p, NEW out, NEW n, NEW kind,
           NEW g \in Disturb(fs, pr, peer, h, p, out, n, kind)
    PROVE  /\ g \in Flow
           /\ \E f \in fs : /\ Like(g, f)
                            /\ g.alone => f.alone /\ ~Disturbed(f, pr, peer, h, p, out, n, kind)
<1> DEFINE hit(f) == Disturbed(f, pr, peer, h, p, out, n, kind)
<1>1. PICK f \in fs : g = [f EXCEPT !.alone = @ /\ ~hit(f)]
  BY DEF Disturb
<1>2. hit(f) \in BOOLEAN
  BY DEF Disturbed
<1> HIDE DEF hit
<1>3. f \in Flow /\ f.alone \in BOOLEAN
  BY DEF Flow
<1>4. (f.alone /\ ~hit(f)) \in BOOLEAN
  BY <1>2, <1>3
<1>5. g.alone <=> (f.alone /\ ~hit(f))
  BY <1>1, <1>3, <1>4, Zenon DEF Flow
<1>6. g \in Flow
  BY <1>1, <1>3, <1>4 DEF Flow
<1>7. Like(g, f)
  BY <1>1, <1>3 DEF Flow, Like
<1> QED BY <1>5, <1>6, <1>7 DEF hit

\* The flow's successor, whose phase goes on from the one of the flow it replaces on the same
\* port, and the flows that are not replaced.
Successor(w, b, fs, pr, peer, h, p, out, n, kind) ==
    /\ w.protocol = pr /\ w.peer = peer /\ w.inside = h /\ w.port = p /\ w.outside = out
    /\ w.external = n /\ w.idle = 0 /\ w.phase = flow_phase(b, kind)
    /\ w.alone => \/ kind = "SYN"
                  \/ \E f \in fs : /\ SameFlow(f, pr, peer, h, p, out) /\ f.external = n
                                   /\ b = f.phase /\ f.alone
    /\ \A g \in Renew(fs, pr, peer, h, p, out, n, kind) :
           \/ g = w
           \/ /\ g \in Flow
              /\ \E f \in fs : /\ Like(g, f) /\ ~SameFlow(f, pr, peer, h, p, out)
                               /\ g.alone => f.alone /\ ~Disturbed(f, pr, peer, h, p, out, n, kind)

\* Renew has the flow's successor for the flow.
LEMMA RenewExact ==
    ASSUME NEW fs \in SUBSET Flow, NEW pr \in Protocols, NEW peer \in Peers \union Addresses,
           NEW h \in Hosts, NEW p \in Ports, NEW out \in Addresses, NEW n \in Nat \ {0},
           NEW kind \in Kinds(pr)
    PROVE  \E w \in Flow, b \in FlowPhases : Successor(w, b, fs, pr, peer, h, p, out, n, kind)
<1> DEFINE old == {f \in fs : SameFlow(f, pr, peer, h, p, out)}
           before == IF \E f \in old : f.external = n
                     THEN CHOOSE f \in old : f.external = n
                     ELSE [phase |-> "partial", alone |-> FALSE]
           w == [protocol |-> pr, peer |-> peer, inside |-> h, port |-> p, outside |-> out,
                 external |-> n, idle |-> 0, phase |-> flow_phase(before.phase, kind),
                 alone |-> kind = "SYN" \/ before.alone]
           rest == Disturb(fs \ old, pr, peer, h, p, out, n, kind)
<1>1. /\ before.phase \in FlowPhases /\ before.alone \in BOOLEAN
      /\ before.alone => \E f \in fs : /\ SameFlow(f, pr, peer, h, p, out) /\ f.external = n
                                       /\ before.phase = f.phase /\ f.alone
  <2>1. CASE \E f \in old : f.external = n
    <3> DEFINE c == CHOOSE f \in old : f.external = n
    <3>1. c \in old /\ c.external = n /\ before = c
      BY <2>1
    <3> HIDE DEF c, before
    <3> QED BY <3>1 DEF Flow
  <2>2. CASE ~\E f \in old : f.external = n
    <3>1. before = [phase |-> "partial", alone |-> FALSE]
      BY <2>2
    <3> HIDE DEF before
    <3>2. before.phase = "partial" /\ before.alone = FALSE
      BY <3>1
    <3> QED BY <3>2 DEF FlowPhases
  <2> QED BY <2>1, <2>2
<1>2. Renew(fs, pr, peer, h, p, out, n, kind) = rest \union {w}
  BY DEF Renew
<1> HIDE DEF before
<1>3. flow_phase(before.phase, kind) \in FlowPhases
  BY <1>1, FlowPhaseType
<1>4. (kind = "SYN" \/ before.alone) \in BOOLEAN
  BY <1>1
<1>5. w \in Flow
  BY <1>3, <1>4 DEF Flow
<1>6. /\ w.protocol = pr /\ w.peer = peer /\ w.inside = h /\ w.port = p /\ w.outside = out
      /\ w.external = n /\ w.idle = 0 /\ w.phase = flow_phase(before.phase, kind)
  OBVIOUS
<1>7. w.alone => kind = "SYN" \/ before.alone
  BY <1>4, Zenon
<1> HIDE DEF w, rest
<1>8. ASSUME NEW g \in rest
      PROVE  /\ g \in Flow
             /\ \E f \in fs : /\ Like(g, f) /\ ~SameFlow(f, pr, peer, h, p, out)
                              /\ g.alone => f.alone /\ ~Disturbed(f, pr, peer, h, p, out, n, kind)
  <2>1. fs \ old \in SUBSET Flow
    OBVIOUS
  <2>2. /\ g \in Flow
        /\ \E f \in fs \ old : /\ Like(g, f)
                               /\ g.alone => f.alone /\ ~Disturbed(f, pr, peer, h, p, out, n, kind)
    BY <1>8, <2>1, DisturbIs DEF rest
  <2> QED BY <2>2
<1>9. Successor(w, before.phase, fs, pr, peer, h, p, out, n, kind)
  BY <1>1, <1>2, <1>6, <1>7, <1>8 DEF Successor
<1> QED BY <1>1, <1>5, <1>9

\* What a renewed set of flows consists of, as far as RoundTrip and StableSource see it.
LEMMA RenewIs ==
    ASSUME NEW fs \in SUBSET Flow, NEW pr \in Protocols, NEW peer \in Peers \union Addresses,
           NEW h \in Hosts, NEW p \in Ports, NEW out \in Addresses, NEW n \in Nat \ {0},
           NEW kind \in Kinds(pr)
    PROVE  \E w \in Flow :
               /\ w.protocol = pr /\ w.inside = h /\ w.port = p /\ w.outside = out
               /\ w.external = n /\ w.idle = 0
               /\ \A g \in Renew(fs, pr, peer, h, p, out, n, kind) :
                      g = w \/ (g \in Flow /\ \E f \in fs : Like(g, f))
<1>1. PICK w \in Flow, b \in FlowPhases : Successor(w, b, fs, pr, peer, h, p, out, n, kind)
  BY RenewExact
<1> QED BY <1>1 DEF Successor

\* Whether a flow is alone does not matter to what backs it.
LEMMA LikeBacked ==
    ASSUME NEW ms, NEW f, NEW g, Like(g, f), StaticFlow(f) \/ Mapped(f, ms)
    PROVE  StaticFlow(g) \/ Mapped(g, ms)
<1>1. CASE StaticFlow(f)
  BY <1>1 DEF Like, StaticFlow
<1>2. CASE Mapped(f, ms)
  <2>1. \A m \in ms : Carries(m, f) => Carries(m, g)
    BY DEF Like, Carries
  <2> QED BY <1>2, <2>1 DEF Like, Mapped
<1> QED BY <1>1, <1>2

\* A set of flows that were backed, and one more.
LEMMA RenewBacked ==
    ASSUME NEW fs, NEW ms, Backed(fs, ms), NEW gs, NEW w, StaticFlow(w) \/ Mapped(w, ms),
           \A g \in gs : g = w \/ \E f \in fs : Like(g, f)
    PROVE  Backed(gs, ms)
BY LikeBacked DEF Backed

\* A packet that belongs to no flow, or is dropped, leaves the flows backed.
LEMMA DisturbBacked ==
    ASSUME NEW fs \in SUBSET Flow, NEW ms, Backed(fs, ms), NEW pr, NEW peer, NEW h, NEW p,
           NEW out, NEW n, NEW kind
    PROVE  /\ Disturb(fs, pr, peer, h, p, out, n, kind) \in SUBSET Flow
           /\ Backed(Disturb(fs, pr, peer, h, p, out, n, kind), ms)
<1> DEFINE gs == Disturb(fs, pr, peer, h, p, out, n, kind)
<1>1. \A g \in gs : g \in Flow /\ \E f \in fs : Like(g, f)
  BY DisturbIs
<1> HIDE DEF gs
<1>2. gs \in SUBSET Flow /\ Backed(gs, ms)
  BY <1>1, LikeBacked DEF Backed
<1> QED BY <1>2 DEF gs

\* Flows stay backed when entries are replaced by ones for the same translation with at least
\* the time left, and when expired entries go.
LEMMA BackedGrows ==
    ASSUME NEW fs \in SUBSET Flow, NEW ms \in SUBSET Mapping, NEW ks \in SUBSET Mapping,
           Backed(fs, ms),
           \A m \in ms : \E k \in ks :
               /\ k.protocol = m.protocol /\ k.inside = m.inside /\ k.port = m.port
               /\ k.outside = m.outside /\ k.external = m.external
               /\ k.ttl >= m.ttl \/ k.ttl >= timeout(m.protocol, "opening")
    PROVE  Backed(fs, ks)
<1> SUFFICES ASSUME NEW f \in fs, f.idle < timeout(f.protocol, "opening"),
                    NEW m \in ms, Carries(m, f)
             PROVE  \E k \in ks : Carries(k, f)
  BY DEF Backed, Mapped
<1>1. timeout(f.protocol, "opening") \in Nat
  <2>1. f.protocol \in Protocols /\ "opening" \in Phases
    BY DEF Flow, Phases
  <2> QED BY <2>1, TimeoutBound
<1>2. m.ttl \in Nat /\ f.idle \in Nat /\ \A k \in ks : k.ttl \in Nat
  BY DEF Mapping, Flow
<1>3. PICK k \in ks : /\ k.protocol = m.protocol /\ k.inside = m.inside /\ k.port = m.port
                      /\ k.outside = m.outside /\ k.external = m.external
                      /\ k.ttl >= m.ttl \/ k.ttl >= timeout(m.protocol, "opening")
  OBVIOUS
<1>4. k.ttl + f.idle >= timeout(f.protocol, "opening")
  BY <1>1, <1>2, <1>3 DEF Carries
<1> QED BY <1>3, <1>4 DEF Carries

\* A live flow's mapping has not expired.
LEMMA BackedExpire ==
    ASSUME NEW fs \in SUBSET Flow, NEW ms, Table(ms), Backed(fs, ms)
    PROVE  Backed(fs, expire(ms))
<1> SUFFICES ASSUME NEW f \in fs, f.idle < timeout(f.protocol, "opening"),
                    NEW m \in ms, Carries(m, f)
             PROVE  m \in expire(ms)
  BY DEF Backed, Mapped
<1>1. m.ttl \in Nat /\ f.idle \in Nat /\ f.protocol \in Protocols /\ "opening" \in Phases
  BY DEF Mapping, Flow, Table, Phases
<1>2. timeout(f.protocol, "opening") \in Nat
  BY <1>1, TimeoutBound
<1> QED BY <1>1, <1>2 DEF Carries, expire

\* A packet from inside keeps every flow backed and leaves its own flow backed.
LEMMA OutboundBacked ==
    ASSUME NEW fs \in SUBSET Flow, NEW ms, Table(ms), Backed(fs, ms), Statics, next \in DynamicPorts,
           NEW pr \in Protocols, NEW h \in Hosts, NEW p \in Ports,
           NEW out \in Addresses \union {NoAddress}, NEW kind \in Kinds(pr),
           NEW r, r = outbound(ms, pr, h, p, out, kind)
    PROVE  /\ Backed(fs, r.mappings)
           /\ r.port # 0 => \A w \in Flow :
                  (/\ w.protocol = pr /\ w.inside = h /\ w.port = p /\ w.outside = out
                   /\ w.external = r.port /\ w.idle = 0)
                  => StaticFlow(w) \/ Mapped(w, r.mappings)
<1>0. ms \in SUBSET Mapping /\ r.mappings \in SUBSET Mapping
  BY OutboundKeeps DEF Table
<1>1. CASE r.port = 0 /\ r.mappings = ms /\ r.next = next
  BY <1>1
<1>2. CASE /\ out \in Addresses /\ r.mappings = ms /\ r.next = next
           /\ \E i \in found(forward_of(pr, h, p)) : r.port = forwards[i].outside_port
  BY <1>2 DEF found, forward_of, StaticFlow
<1>3. CASE /\ out \in Addresses /\ r.next = next /\ forward_of(pr, h, p) = {}
           /\ \E m \in mapping_of(ms, pr, h, p, out) :
                  r.port = m.external /\ r.mappings = (ms \ {m}) \union {touch(m, kind)}
  <2>1. PICK m \in ms : /\ m.protocol = pr /\ m.inside = h /\ m.port = p /\ m.outside = out
                        /\ r.port = m.external
                        /\ r.mappings = (ms \ {m}) \union {touch(m, kind)}
    BY <1>3 DEF mapping_of
  <2> DEFINE t == touch(m, kind)
  <2>2. /\ t \in Mapping /\ t.protocol = pr /\ t.inside = h /\ t.port = p /\ t.outside = out
        /\ t.external = m.external /\ t.ttl >= timeout(pr, "opening") /\ t \in r.mappings
    BY <1>0, <2>1, TouchKeeps
  <2>3. r.port \in DynamicPorts /\ t.ttl \in Nat
    BY <1>0, <2>1, <2>2 DEF Mapping
  <2>4. r.mappings = (ms \ {m}) \union {t}
    BY <2>1
  <2> HIDE DEF t
  <2>5. \A k \in ms : k.ttl \in Nat
    BY <1>0 DEF Mapping
  <2>6. Backed(fs, r.mappings)
    <3>1. \A k \in ms : \E l \in r.mappings :
               /\ l.protocol = k.protocol /\ l.inside = k.inside /\ l.port = k.port
               /\ l.outside = k.outside /\ l.external = k.external
               /\ l.ttl >= k.ttl \/ l.ttl >= timeout(k.protocol, "opening")
      <4> TAKE k \in ms
      <4>1. CASE k = m
        BY <2>1, <2>2, <4>1
      <4>2. CASE k # m
        <5>1. k \in r.mappings /\ k.ttl >= k.ttl
          BY <2>4, <2>5, <4>2
        <5> QED BY <5>1
      <4> QED BY <4>1, <4>2
    <3> QED BY <1>0, <3>1, BackedGrows
  <2>7. ASSUME NEW w \in Flow, w.protocol = pr, w.inside = h, w.port = p, w.outside = out,
               w.external = r.port, w.idle = 0
        PROVE  Mapped(w, r.mappings)
    <3>1. t.ttl + w.idle >= timeout(w.protocol, "opening")
      BY <2>2, <2>3, <2>7
    <3> QED BY <1>3, <2>1, <2>2, <2>3, <2>7, <3>1 DEF Mapped, Carries
  <2> QED BY <2>6, <2>7
<1>4. CASE /\ out \in Addresses /\ forward_of(pr, h, p) = {}
           /\ r.port \in free(ms, pr, h, out)
           /\ r.mappings = ms \union {touch(NewMapping(pr, h, p, out, r.port), kind)}
  <2> DEFINE new == NewMapping(pr, h, p, out, r.port)
             t == touch(new, kind)
  <2>1. r.port \in DynamicPorts
    BY <1>4 DEF free
  <2>2. new \in Mapping /\ new.protocol = pr
    BY <1>4, <2>1 DEF NewMapping, Mapping, Phases
  <2>3. /\ t \in Mapping /\ t.protocol = pr /\ t.inside = h /\ t.port = p /\ t.outside = out
        /\ t.external = r.port /\ t.ttl >= timeout(pr, "opening")
    BY <2>2, TouchKeeps DEF NewMapping
  <2>4. r.mappings = ms \union {t}
    BY <1>4
  <2> HIDE DEF t, new
  <2>5. Backed(fs, r.mappings)
    BY <2>4 DEF Backed, Mapped
  <2>6. ASSUME NEW w \in Flow, w.protocol = pr, w.inside = h, w.port = p, w.outside = out,
               w.external = r.port, w.idle = 0
        PROVE  Mapped(w, r.mappings)
    <3>1. t.ttl \in Nat
      BY <2>3 DEF Mapping
    <3>2. t.ttl + w.idle >= timeout(w.protocol, "opening")
      BY <2>3, <2>6, <3>1
    <3> QED BY <1>4, <2>1, <2>3, <2>4, <2>6, <3>2 DEF Mapped, Carries
  <2> QED BY <2>5, <2>6
<1> QED BY <1>1, <1>2, <1>3, <1>4, OutboundCases

\* A packet from outside alone keeps the flows backed when the answer to it is dropped.
LEMMA InboundOnlyBacked ==
    ASSUME NEW fs \in SUBSET Flow, NEW ms, Table(ms), Backed(fs, ms), NEW pr \in Protocols,
           NEW out \in Addresses, NEW n, NEW kind \in Kinds(pr)
    PROVE  Backed(fs, inbound_table(ms, pr, out, n, kind))
<1> DEFINE ks == inbound_table(ms, pr, out, n, kind)
<1>0. ms \in SUBSET Mapping /\ ks \in SUBSET Mapping
  BY InboundKeeps DEF Table
<1>1. CASE forward_to(pr, n) # {}
  BY <1>1 DEF inbound_table
<1>2. CASE forward_to(pr, n) = {}
  <2>1. ks = {IF k \in mapping_to(ms, pr, out, n) THEN touch(k, kind) ELSE k : k \in ms}
    BY <1>2 DEF inbound_table
  <2> HIDE DEF ks
  <2>2. \A k \in ms : \E l \in ks :
               /\ l.protocol = k.protocol /\ l.inside = k.inside /\ l.port = k.port
               /\ l.outside = k.outside /\ l.external = k.external
               /\ l.ttl >= k.ttl \/ l.ttl >= timeout(k.protocol, "opening")
    <3> TAKE k \in ms
    <3>1. CASE k \in mapping_to(ms, pr, out, n)
      <4>1. k \in Mapping /\ k.protocol = pr
        BY <1>0, <3>1 DEF mapping_to
      <4>2. touch(k, kind) \in ks
        BY <2>1, <3>1
      <4> QED BY <4>1, <4>2, TouchKeeps
    <3>2. CASE k \notin mapping_to(ms, pr, out, n)
      <4>1. k \in ks /\ k.ttl \in Nat
        BY <1>0, <2>1, <3>2 DEF Mapping
      <4>2. k.ttl >= k.ttl
        BY <4>1
      <4> QED BY <4>1, <4>2
    <3> QED BY <3>1, <3>2
  <2>3. Backed(fs, ks)
    BY <1>0, <2>2, BackedGrows
  <2> QED BY <2>3 DEF ks
<1> QED BY <1>1, <1>2

\* A packet from outside keeps every flow backed, and the flow it belongs to.
LEMMA InboundBacked ==
    ASSUME NEW fs \in SUBSET Flow, NEW ms, Table(ms), Backed(fs, ms), Statics,
           NEW pr \in Protocols, NEW peer \in Peers \union Addresses, NEW out \in Addresses,
           NEW n \in Nat \ {0}, NEW kind \in Kinds(pr), NEW to \in inbound(ms, pr, out, n),
           NEW ks, ks = inbound_table(ms, pr, out, n, kind),
           NEW gs, gs = Answered(fs, pr, peer, to[1], to[2], out, n, kind)
    PROVE  gs \in SUBSET Flow /\ Backed(gs, ks)
<1>0. ms \in SUBSET Mapping /\ ks \in SUBSET Mapping
  BY InboundKeeps DEF Table
<1>1. CASE forward_to(pr, n) # {}
  <2>1. PICK i \in forward_to(pr, n) : to = <<forwards[i].inside, forwards[i].inside_port>>
    BY <1>1 DEF inbound, found
  <2>2. /\ i \in DOMAIN forwards /\ forwards[i].protocol = pr /\ forwards[i].outside_port = n
        /\ to[1] = forwards[i].inside /\ to[2] = forwards[i].inside_port
    BY <2>1 DEF forward_to
  <2>3. to[1] \in Hosts /\ to[2] \in Ports
    BY <2>2, ForwardType
  <2>4. gs = Renew(fs, pr, peer, to[1], to[2], out, n, kind)
    BY <1>1 DEF Answered
  <2>5. PICK w \in Flow :
               /\ w.protocol = pr /\ w.inside = to[1] /\ w.port = to[2] /\ w.outside = out
               /\ w.external = n /\ w.idle = 0
               /\ \A g \in gs : g = w \/ (g \in Flow /\ \E f \in fs : Like(g, f))
    BY <2>3, <2>4, RenewIs
  <2>6. StaticFlow(w)
    BY <2>2, <2>5 DEF StaticFlow
  <2>7. ks = ms
    BY <1>1 DEF inbound_table
  <2>8. gs \in SUBSET Flow
    BY <2>5
  <2> QED BY <2>5, <2>6, <2>7, <2>8, RenewBacked
<1>2. CASE forward_to(pr, n) = {}
  <2>1. PICK m \in mapping_to(ms, pr, out, n) : to = <<m.inside, m.port>>
    BY <1>2 DEF inbound
  <2>2. /\ m \in ms /\ m.protocol = pr /\ m.outside = out /\ m.external = n
        /\ to[1] = m.inside /\ to[2] = m.port
    BY <2>1 DEF mapping_to
  <2>3. m \in Mapping /\ to[1] \in Hosts /\ to[2] \in Ports
    BY <1>0, <2>2 DEF Mapping
  <2>4. ks = {IF k \in mapping_to(ms, pr, out, n) THEN touch(k, kind) ELSE k : k \in ms}
    BY <1>2 DEF inbound_table
  <2>5. Backed(fs, ks)
    BY InboundOnlyBacked
  <2>6. CASE ~\E f \in fs : SameFlow(f, pr, peer, to[1], to[2], out) /\ f.external = n
    <3>1. gs = Disturb(fs, pr, peer, to[1], to[2], out, n, kind)
      BY <1>2, <2>6 DEF Answered
    <3> QED BY <2>5, <3>1, DisturbBacked
  <2>7. CASE \E f \in fs : SameFlow(f, pr, peer, to[1], to[2], out) /\ f.external = n
    <3>1. PICK f \in fs : SameFlow(f, pr, peer, to[1], to[2], out) /\ f.external = n
      BY <2>7
    <3>2. ~StaticFlow(f)
      BY <1>2, <3>1 DEF StaticFlow, forward_to, SameFlow
    <3>3. Mapped(f, ms)
      BY <3>2 DEF Backed
    <3>4. n \in DynamicPorts /\ forward_of(pr, to[1], to[2]) = {}
      BY <3>1, <3>3 DEF Mapped, SameFlow
    <3>5. gs = Renew(fs, pr, peer, to[1], to[2], out, n, kind)
      BY <2>7 DEF Answered
    <3>6. PICK w \in Flow :
               /\ w.protocol = pr /\ w.inside = to[1] /\ w.port = to[2] /\ w.outside = out
               /\ w.external = n /\ w.idle = 0
               /\ \A g \in gs : g = w \/ (g \in Flow /\ \E e \in fs : Like(g, e))
      BY <2>3, <3>5, RenewIs
    <3>7. touch(m, kind) \in ks
      BY <2>1, <2>2, <2>4
    <3>8. Carries(touch(m, kind), w)
      <4>1. /\ touch(m, kind) \in Mapping
            /\ touch(m, kind).protocol = m.protocol /\ touch(m, kind).inside = m.inside
            /\ touch(m, kind).port = m.port /\ touch(m, kind).outside = m.outside
            /\ touch(m, kind).external = m.external
            /\ touch(m, kind).ttl >= timeout(m.protocol, "opening")
        BY <2>2, <2>3, TouchKeeps
      <4>2. touch(m, kind).ttl \in Nat
        BY <4>1 DEF Mapping
      <4>3. touch(m, kind).ttl + w.idle >= timeout(w.protocol, "opening")
        BY <2>2, <3>6, <4>1, <4>2
      <4> QED BY <2>2, <3>6, <4>1, <4>3 DEF Carries
    <3>9. Mapped(w, ks)
      BY <3>4, <3>6, <3>7, <3>8 DEF Mapped
    <3>10. gs \in SUBSET Flow
      BY <3>6
    <3> QED BY <2>5, <3>6, <3>9, <3>10, RenewBacked
  <2> QED BY <2>6, <2>7
<1> QED BY <1>1, <1>2

-----------------------------------------------------------------------------
(* The list of forwards. *)

\* Removing one entry of a list.
LEMMA RemoveAtIs ==
    ASSUME NEW S, NEW q \in Seq(S), NEW i \in DOMAIN q, NEW r, r = RemoveAt(q, i)
    PROVE  /\ r \in Seq(S)
           /\ Len(r) = Len(q) - 1
           /\ \A j \in DOMAIN r : r[j] = q[IF j < i THEN j ELSE j + 1]
<1>1. i \in 1 .. Len(q) /\ Len(q) \in Nat
  OBVIOUS
<1> DEFINE a == SubSeq(q, 1, i - 1)
           b == SubSeq(q, i + 1, Len(q))
<1>2. a \in Seq(S) /\ Len(a) = i - 1 /\ \A j \in 1 .. Len(a) : a[j] = q[j]
  BY <1>1
<1>3. b \in Seq(S) /\ Len(b) = Len(q) - i /\ \A j \in 1 .. Len(b) : b[j] = q[i + j]
  BY <1>1
<1>4. r = a \o b
  BY DEF RemoveAt
<1> HIDE DEF a, b
<1>5. r \in Seq(S) /\ Len(r) = Len(q) - 1
  BY <1>1, <1>2, <1>3, <1>4
<1>6. ASSUME NEW j \in DOMAIN r
      PROVE  r[j] = q[IF j < i THEN j ELSE j + 1]
  <2>1. j \in 1 .. (Len(q) - 1)
    BY <1>5
  <2>2. CASE j < i
    <3>1. j \in 1 .. Len(a)
      BY <1>1, <1>2, <2>1, <2>2
    <3>2. r[j] = a[j]
      BY <1>2, <1>3, <1>4, <3>1
    <3> QED BY <1>2, <2>2, <3>1, <3>2
  <2>3. CASE ~(j < i)
    <3>1. (j - Len(a)) \in 1 .. Len(b) /\ j > Len(a) /\ i + (j - Len(a)) = j + 1
      BY <1>1, <1>2, <1>3, <2>1, <2>3
    <3>2. r[j] = b[j - Len(a)]
      <4>1. j \in 1 .. Len(a) + Len(b) /\ ~(j <= Len(a))
        BY <1>1, <1>2, <1>3, <2>1, <2>3
      <4>2. (a \o b)[j] = IF j <= Len(a) THEN a[j] ELSE b[j - Len(a)]
        BY <1>2, <1>3, <4>1, ConcatProperties
      <4> QED BY <1>4, <4>1, <4>2
    <3> QED BY <1>3, <2>3, <3>1, <3>2
  <2> QED BY <2>2, <2>3
<1> QED BY <1>5, <1>6

\* Adding a forward replaces the one for its port: the list stays unambiguous, loses no other
\* forward and gains no other.
LEMMA AddKeeps ==
    ASSUME Statics, NEW f \in Forwards, forwards' = Append(retained(f), f)
    PROVE  /\ Statics'
           /\ \A i \in DOMAIN forwards' : forwards'[i] = f \/ \E j \in DOMAIN forwards : forwards'[i] = forwards[j]
           /\ \A j \in DOMAIN forwards :
                  \/ forwards[j].protocol = f.protocol /\ forwards[j].outside_port = f.outside_port
                  \/ \E i \in DOMAIN forwards' : forwards'[i] = forwards[j]
<1> DEFINE same == forward_to(f.protocol, f.outside_port)
           r == retained(f)
<1>0. forwards \in Seq(Forwards)
  BY DEF Statics
<1>1. /\ r \in Seq(Forwards)
      /\ \A i \in DOMAIN r : /\ ~(r[i].protocol = f.protocol /\ r[i].outside_port = f.outside_port)
                             /\ \E j \in DOMAIN forwards : r[i] = forwards[j]
      /\ \A i, k \in DOMAIN r :
             r[i].protocol = r[k].protocol /\ r[i].outside_port = r[k].outside_port => i = k
      /\ \A j \in DOMAIN forwards :
             \/ forwards[j].protocol = f.protocol /\ forwards[j].outside_port = f.outside_port
             \/ \E i \in DOMAIN r : r[i] = forwards[j]
  <2>1. CASE same = {}
    <3>1. r = forwards
      BY <2>1 DEF retained
    <3> QED BY <2>1, <3>1 DEF Statics, forward_to
  <2>2. CASE same # {}
    <3> DEFINE x == CHOOSE i \in same : TRUE
    <3>1. x \in same
      BY <2>2
    <3>2. r = RemoveAt(forwards, x)
      BY <2>2 DEF retained
    <3> HIDE DEF x, r, same
    <3>3. /\ x \in DOMAIN forwards /\ forwards[x].protocol = f.protocol
          /\ forwards[x].outside_port = f.outside_port
      BY <3>1 DEF same, forward_to
    <3>4. /\ r \in Seq(Forwards) /\ Len(r) = Len(forwards) - 1
          /\ \A j \in DOMAIN r : r[j] = forwards[IF j < x THEN j ELSE j + 1]
      BY <1>0, <3>2, <3>3, RemoveAtIs
    <3>5. x \in 1 .. Len(forwards) /\ Len(forwards) \in Nat
          /\ DOMAIN r = 1 .. (Len(forwards) - 1) /\ DOMAIN forwards = 1 .. Len(forwards)
      BY <1>0, <3>3, <3>4
    <3> DEFINE at(j) == IF j < x THEN j ELSE j + 1
    <3>6. \A j \in DOMAIN r : at(j) \in DOMAIN forwards /\ at(j) # x /\ r[j] = forwards[at(j)]
      BY <3>4, <3>5
    <3>7. \A i, k \in DOMAIN r : at(i) = at(k) => i = k
      BY <3>5
    <3>8. \A j \in DOMAIN forwards : j # x => \E i \in DOMAIN r : at(i) = j
      <4> SUFFICES ASSUME NEW j \in DOMAIN forwards, j # x PROVE \E i \in DOMAIN r : at(i) = j
        OBVIOUS
      <4>1. CASE j < x
        <5>1. j \in DOMAIN r /\ at(j) = j
          BY <3>5, <4>1
        <5> QED BY <5>1
      <4>2. CASE j > x
        <5>1. (j - 1) \in DOMAIN r /\ at(j - 1) = j
          BY <3>5, <4>2
        <5> QED BY <5>1
      <4> QED BY <3>5, <4>1, <4>2
    <3> HIDE DEF at
    <3>9. \A j \in DOMAIN forwards : j = x \/ ~(forwards[j].protocol = f.protocol
                                               /\ forwards[j].outside_port = f.outside_port)
      BY <3>3 DEF Statics
    <3>10. \A i \in DOMAIN r : /\ ~(r[i].protocol = f.protocol /\ r[i].outside_port = f.outside_port)
                               /\ \E j \in DOMAIN forwards : r[i] = forwards[j]
      BY <3>6, <3>9
    <3>11. \A i, k \in DOMAIN r :
             r[i].protocol = r[k].protocol /\ r[i].outside_port = r[k].outside_port => i = k
      <4> SUFFICES ASSUME NEW i \in DOMAIN r, NEW k \in DOMAIN r,
                          r[i].protocol = r[k].protocol, r[i].outside_port = r[k].outside_port
                   PROVE  i = k
        OBVIOUS
      <4>1. at(i) = at(k)
        BY <3>6 DEF Statics
      <4> QED BY <3>7, <4>1
    <3>12. \A j \in DOMAIN forwards :
             \/ forwards[j].protocol = f.protocol /\ forwards[j].outside_port = f.outside_port
             \/ \E i \in DOMAIN r : r[i] = forwards[j]
      BY <3>3, <3>6, <3>8
    <3> QED BY <3>4, <3>10, <3>11, <3>12
  <2> QED BY <2>1, <2>2
<1> HIDE DEF r
<1>2. /\ forwards' \in Seq(Forwards) /\ Len(forwards') = Len(r) + 1 /\ forwards'[Len(r) + 1] = f
      /\ \A i \in 1 .. Len(r) : forwards'[i] = r[i]
  BY <1>1 DEF r
<1>3. DOMAIN forwards' = 1 .. (Len(r) + 1) /\ DOMAIN r = 1 .. Len(r) /\ Len(r) \in Nat
  BY <1>1, <1>2
<1>4. \A i \in DOMAIN forwards' : i = Len(r) + 1 \/ i \in DOMAIN r
  BY <1>3
<1>5. \A i \in DOMAIN r : i \in DOMAIN forwards' /\ forwards'[i] = r[i]
  BY <1>2, <1>3
<1>6. Statics'
  <2>1. ASSUME NEW i \in DOMAIN forwards', NEW j \in DOMAIN forwards',
               forwards'[i].protocol = forwards'[j].protocol,
               forwards'[i].outside_port = forwards'[j].outside_port
        PROVE  i = j
    <3>1. CASE i \in DOMAIN r /\ j \in DOMAIN r
      BY <1>1, <1>5, <2>1, <3>1
    <3>2. CASE i \in DOMAIN r /\ j = Len(r) + 1
      BY <1>1, <1>2, <1>5, <2>1, <3>2
    <3>3. CASE i = Len(r) + 1 /\ j \in DOMAIN r
      BY <1>1, <1>2, <1>5, <2>1, <3>3
    <3>4. CASE i = Len(r) + 1 /\ j = Len(r) + 1
      BY <3>4
    <3> QED BY <1>4, <3>1, <3>2, <3>3, <3>4
  <2> QED BY <1>2, <2>1 DEF Statics
<1>7. \A i \in DOMAIN forwards' : forwards'[i] = f \/ \E j \in DOMAIN forwards : forwards'[i] = forwards[j]
  BY <1>1, <1>2, <1>4, <1>5
<1>8. \A j \in DOMAIN forwards :
          \/ forwards[j].protocol = f.protocol /\ forwards[j].outside_port = f.outside_port
          \/ \E i \in DOMAIN forwards' : forwards'[i] = forwards[j]
  BY <1>1, <1>5
<1> QED BY <1>6, <1>7, <1>8

-----------------------------------------------------------------------------
(* The inductive invariant. *)

IInv ==
    /\ Table(mappings)
    /\ next \in DynamicPorts
    /\ Statics
    /\ address \in Addresses \union {NoAddress}
    /\ flows \in SUBSET Flow
    /\ Backed(flows, mappings)

\* An empty table, a list of forwards without repetitions, no flows.
LEMMA InitIInv == Init => IInv
<1> SUFFICES ASSUME Init PROVE IInv
  OBVIOUS
<1>1. Table(mappings)
  BY FS_EmptySet, NatAssumption DEF Init, Table, Unique
<1>2. Statics
  BY NatAssumption DEF Init, Statics
<1>3. next \in DynamicPorts
  BY NatAssumption DEF Init, DynamicPorts
<1> QED BY <1>1, <1>2, <1>3 DEF Init, IInv, Backed

\* The outside ports a packet can name are ports.
LEMMA PortType ==
    ASSUME NEW n \in DynamicPorts \union StaticPorts
    PROVE  n \in Nat \ {0}
BY NatAssumption DEF DynamicPorts, StaticPorts

\* Steps that leave the forwards alone.
LEMMA SameForwards ==
    ASSUME forwards' = forwards, Statics, Backed(flows', mappings')
    PROVE  Statics' /\ Backed(flows, mappings)'
<1>1. Statics'
  BY DEF Statics
<1>2. ASSUME NEW f \in flows' PROVE StaticFlow(f)' \/ Mapped(f, mappings)'
  <2>1. CASE StaticFlow(f)
    BY <2>1 DEF StaticFlow
  <2>2. CASE Mapped(f, mappings')
    BY <2>2 DEF Mapped, forward_of, Carries
  <2> QED BY <1>2, <2>1, <2>2 DEF Backed
<1> QED BY <1>1, <1>2 DEF Backed

\* Egress.
LEMMA EgressKeeps == IInv /\ Egress => IInv'
<1> SUFFICES ASSUME IInv, Egress PROVE IInv'
  OBVIOUS
<1> USE DEF IInv
<1>1. PICK pr \in Protocols, h \in Hosts, p \in Ports, peer \in Peers : \E kind \in Kinds(pr) :
        LET r == outbound(expire(mappings), pr, h, p, address, kind)
        IN  /\ mappings' = r.mappings
            /\ next' = r.next
            /\ flows' = IF r.port = 0 THEN flows
                        ELSE Renew(flows, pr, peer, h, p, address, r.port, kind)
            /\ UNCHANGED <<forwards, address>>
  BY DEF Egress
<1>k. PICK kind \in Kinds(pr) :
        LET r == outbound(expire(mappings), pr, h, p, address, kind)
        IN  /\ mappings' = r.mappings
            /\ next' = r.next
            /\ flows' = IF r.port = 0 THEN flows
                        ELSE Renew(flows, pr, peer, h, p, address, r.port, kind)
            /\ UNCHANGED <<forwards, address>>
  BY <1>1
<1>2. PICK r :
            /\ r = outbound(expire(mappings), pr, h, p, address, kind)
            /\ mappings' = r.mappings
            /\ next' = r.next
            /\ flows' = IF r.port = 0 THEN flows
                        ELSE Renew(flows, pr, peer, h, p, address, r.port, kind)
            /\ UNCHANGED <<forwards, address>>
  BY <1>k
<1>3. Table(expire(mappings)) /\ Backed(flows, expire(mappings))
  BY ExpireKeeps, BackedExpire
<1>4. Table(r.mappings) /\ r.next \in DynamicPorts /\ r.port \in Nat /\ (r.port # 0 => address \in Addresses)
  BY <1>2, <1>3, OutboundKeeps
<1>5. /\ Backed(flows, r.mappings)
      /\ r.port # 0 => \A w \in Flow :
             (/\ w.protocol = pr /\ w.inside = h /\ w.port = p /\ w.outside = address
              /\ w.external = r.port /\ w.idle = 0)
             => StaticFlow(w) \/ Mapped(w, r.mappings)
  BY <1>2, <1>3, OutboundBacked
<1>6. flows' \in SUBSET Flow /\ Backed(flows', mappings')
  <2>1. CASE r.port = 0
    BY <1>2, <1>5, <2>1
  <2>2. CASE r.port # 0
    <3>1. PICK w \in Flow :
               /\ w.protocol = pr /\ w.inside = h /\ w.port = p /\ w.outside = address
               /\ w.external = r.port /\ w.idle = 0
               /\ \A g \in Renew(flows, pr, peer, h, p, address, r.port, kind) :
                      g = w \/ (g \in Flow /\ \E f \in flows : Like(g, f))
      BY <1>4, <2>2, RenewIs
    <3>2. StaticFlow(w) \/ Mapped(w, r.mappings)
      BY <1>5, <2>2, <3>1
    <3>3. flows' \in SUBSET Flow /\ \A g \in flows' : g = w \/ \E f \in flows : Like(g, f)
      BY <1>2, <2>2, <3>1
    <3>4. Backed(flows', r.mappings)
      BY <1>5, <3>2, <3>3, RenewBacked
    <3> QED BY <1>2, <3>3, <3>4
  <2> QED BY <2>1, <2>2
<1>7. Table(mappings)'
  BY <1>2, <1>4 DEF Table, Unique
<1> QED BY <1>2, <1>4, <1>6, <1>7, SameForwards

\* Ingress.
LEMMA IngressKeeps == IInv /\ Ingress => IInv'
<1> SUFFICES ASSUME IInv, Ingress PROVE IInv'
  OBVIOUS
<1> USE DEF IInv
<1>1. PICK pr \in Protocols, n \in DynamicPorts \union StaticPorts, peer \in Peers : \E kind \in Kinds(pr) :
        LET ms == expire(mappings)
        IN  /\ address # NoAddress
            /\ mappings' = inbound_table(ms, pr, address, n, kind)
            /\ \E to \in inbound(ms, pr, address, n) :
                   flows' = Answered(flows, pr, peer, to[1], to[2], address, n, kind)
            /\ UNCHANGED <<next, forwards, address>>
  BY DEF Ingress
<1>k. PICK kind \in Kinds(pr) :
        LET ms == expire(mappings)
        IN  /\ address # NoAddress
            /\ mappings' = inbound_table(ms, pr, address, n, kind)
            /\ \E to \in inbound(ms, pr, address, n) :
                   flows' = Answered(flows, pr, peer, to[1], to[2], address, n, kind)
            /\ UNCHANGED <<next, forwards, address>>
  BY <1>1
<1>2. PICK ms, to :
            /\ ms = expire(mappings)
            /\ address # NoAddress
            /\ mappings' = inbound_table(ms, pr, address, n, kind)
            /\ to \in inbound(ms, pr, address, n)
            /\ flows' = Answered(flows, pr, peer, to[1], to[2], address, n, kind)
            /\ UNCHANGED <<next, forwards, address>>
  BY <1>k
<1>3. Table(ms) /\ Backed(flows, ms)
  BY <1>2, ExpireKeeps, BackedExpire
<1>4. address \in Addresses /\ n \in Nat \ {0}
  BY <1>2, PortType
<1>5. Table(inbound_table(ms, pr, address, n, kind))
  BY <1>3, InboundKeeps
<1>6. flows' \in SUBSET Flow /\ Backed(flows', mappings')
  BY <1>2, <1>3, <1>4, InboundBacked
<1>7. Table(mappings)'
  BY <1>2, <1>5 DEF Table, Unique
<1> QED BY <1>2, <1>6, <1>7, SameForwards

\* Hairpin: a packet from outside followed by one from inside.
LEMMA HairpinKeeps == IInv /\ Hairpin => IInv'
<1> SUFFICES ASSUME IInv, Hairpin PROVE IInv'
  OBVIOUS
<1> USE DEF IInv
<1>1. PICK pr \in Protocols, h \in Hosts, p \in Ports, n \in DynamicPorts \union StaticPorts :
      \E kind \in Kinds(pr) :
        LET ms == expire(mappings)
            r == outbound(inbound_table(ms, pr, address, n, kind), pr, h, p, address, kind)
        IN  /\ address # NoAddress
            /\ mappings' = r.mappings
            /\ next' = r.next
            /\ \E to \in inbound(ms, pr, address, n) :
                   flows' = IF r.port = 0
                            THEN Disturb(flows, pr, NoAddress, to[1], to[2], address, n, kind)
                            ELSE Renew(Answered(flows, pr, address, to[1], to[2], address, n, kind),
                                       pr, address, h, p, address, r.port, kind)
            /\ UNCHANGED <<forwards, address>>
  BY NatAssumption DEF Hairpin
<1>k. PICK kind \in Kinds(pr) :
        LET ms == expire(mappings)
            r == outbound(inbound_table(ms, pr, address, n, kind), pr, h, p, address, kind)
        IN  /\ address # NoAddress
            /\ mappings' = r.mappings
            /\ next' = r.next
            /\ \E to \in inbound(ms, pr, address, n) :
                   flows' = IF r.port = 0
                            THEN Disturb(flows, pr, NoAddress, to[1], to[2], address, n, kind)
                            ELSE Renew(Answered(flows, pr, address, to[1], to[2], address, n, kind),
                                       pr, address, h, p, address, r.port, kind)
            /\ UNCHANGED <<forwards, address>>
  BY <1>1
<1>2. PICK ms, ks, r, to, gs :
            /\ ms = expire(mappings)
            /\ ks = inbound_table(ms, pr, address, n, kind)
            /\ r = outbound(ks, pr, h, p, address, kind)
            /\ address # NoAddress
            /\ mappings' = r.mappings
            /\ next' = r.next
            /\ to \in inbound(ms, pr, address, n)
            /\ gs = Answered(flows, pr, address, to[1], to[2], address, n, kind)
            /\ flows' = IF r.port = 0
                        THEN Disturb(flows, pr, NoAddress, to[1], to[2], address, n, kind)
                        ELSE Renew(gs, pr, address, h, p, address, r.port, kind)
            /\ UNCHANGED <<forwards, address>>
  BY <1>k
<1>3. Table(ms) /\ Backed(flows, ms)
  BY <1>2, ExpireKeeps, BackedExpire
<1>4. address \in Addresses /\ address \in Peers \union Addresses /\ n \in Nat \ {0}
  BY <1>2, PortType
<1>5. Table(ks)
  BY <1>2, <1>3, InboundKeeps
<1>6. gs \in SUBSET Flow /\ Backed(gs, ks) /\ Backed(flows, ks)
  <2>1. Backed(flows, ks)
    BY <1>2, <1>3, <1>4, InboundOnlyBacked
  <2>2. gs \in SUBSET Flow /\ Backed(gs, ks)
    <3> HIDE DEF IInv
    <3>1. PICK peer \in Peers \union Addresses, out \in Addresses : peer = address /\ out = address
      BY <1>4
    <3>2. to \in inbound(ms, pr, out, n) /\ ks = inbound_table(ms, pr, out, n, kind)
      BY <1>2, <3>1
    <3>3. gs = Answered(flows, pr, peer, to[1], to[2], out, n, kind)
      BY <1>2, <3>1
    <3>4. Statics /\ flows \in SUBSET Flow
      BY DEF IInv
    <3> QED BY <1>3, <1>4, <3>2, <3>3, <3>4, InboundBacked, SMTT(60)
  <2> QED BY <2>1, <2>2
<1>7. Table(r.mappings) /\ r.next \in DynamicPorts /\ r.port \in Nat
  BY <1>2, <1>5, OutboundKeeps
<1>8. Backed(flows, r.mappings)
  BY <1>2, <1>5, <1>6, OutboundBacked
<1>9. /\ Backed(gs, r.mappings)
      /\ r.port # 0 => \A w \in Flow :
             (/\ w.protocol = pr /\ w.inside = h /\ w.port = p /\ w.outside = address
              /\ w.external = r.port /\ w.idle = 0)
             => StaticFlow(w) \/ Mapped(w, r.mappings)
  <2>1. Statics /\ next \in DynamicPorts /\ address \in Addresses \union {NoAddress}
    BY <1>4
  <2>2. r = outbound(ks, pr, h, p, address, kind)
    BY <1>2
  <2> HIDE DEF IInv
  <2> QED BY <1>5, <1>6, <2>1, <2>2, OutboundBacked
<1>10. flows' \in SUBSET Flow /\ Backed(flows', mappings')
  <2>1. CASE r.port = 0
    BY <1>2, <1>8, <2>1, DisturbBacked
  <2>2. CASE r.port # 0
    <3>1. PICK w \in Flow :
               /\ w.protocol = pr /\ w.inside = h /\ w.port = p /\ w.outside = address
               /\ w.external = r.port /\ w.idle = 0
               /\ \A g \in Renew(gs, pr, address, h, p, address, r.port, kind) :
                      g = w \/ (g \in Flow /\ \E f \in gs : Like(g, f))
      BY <1>4, <1>6, <1>7, <2>2, RenewIs
    <3>2. StaticFlow(w) \/ Mapped(w, r.mappings)
      BY <1>9, <2>2, <3>1
    <3>3. flows' \in SUBSET Flow /\ \A g \in flows' : g = w \/ \E f \in gs : Like(g, f)
      BY <1>2, <2>2, <3>1
    <3>4. Backed(flows', r.mappings)
      BY <1>9, <3>2, <3>3, RenewBacked
    <3> QED BY <1>2, <3>3, <3>4
  <2> QED BY <2>1, <2>2
<1>11. Table(mappings)'
  BY <1>2, <1>7 DEF Table, Unique
<1> QED BY <1>2, <1>7, <1>10, <1>11, SameForwards

\* A new forward.
LEMMA AddForwardKeeps == IInv /\ AddForward => IInv'
<1> SUFFICES ASSUME IInv, AddForward PROVE IInv'
  OBVIOUS
<1> USE DEF IInv
<1>1. PICK f \in Configurable :
        /\ forwards' = Append(retained(f), f)
        /\ flows' = {w \in flows : ~(/\ w.protocol = f.protocol
                                     /\ \/ w.external = f.outside_port
                                        \/ w.inside = f.inside /\ w.port = f.inside_port)}
        /\ UNCHANGED <<mappings, next, address>>
  BY DEF AddForward
<1>2. f \in Forwards
  BY DEF Forwards
<1>3. /\ Statics'
      /\ \A i \in DOMAIN forwards' : forwards'[i] = f \/ \E j \in DOMAIN forwards : forwards'[i] = forwards[j]
      /\ \A j \in DOMAIN forwards :
             \/ forwards[j].protocol = f.protocol /\ forwards[j].outside_port = f.outside_port
             \/ \E i \in DOMAIN forwards' : forwards'[i] = forwards[j]
  BY <1>1, <1>2, AddKeeps
<1>4. ASSUME NEW w \in flows' PROVE StaticFlow(w)' \/ Mapped(w, mappings)'
  <2>1. /\ w \in flows
        /\ ~(/\ w.protocol = f.protocol
             /\ \/ w.external = f.outside_port
                \/ w.inside = f.inside /\ w.port = f.inside_port)
    BY <1>1, <1>4
  <2>2. CASE StaticFlow(w)
    <3>1. PICK j \in DOMAIN forwards :
              /\ forwards[j].protocol = w.protocol /\ forwards[j].outside_port = w.external
              /\ forwards[j].inside = w.inside /\ forwards[j].inside_port = w.port
      BY <2>2 DEF StaticFlow
    <3>2. PICK i \in DOMAIN forwards' : forwards'[i] = forwards[j]
      BY <1>3, <2>1, <3>1
    <3> QED BY <3>1, <3>2 DEF StaticFlow
  <2>3. CASE Mapped(w, mappings)
    <3>1. forward_of(w.protocol, w.inside, w.port) = {}
      BY <2>3 DEF Mapped
    <3>2. forward_of(w.protocol, w.inside, w.port)' = {}
      BY <1>3, <2>1, <3>1 DEF forward_of
    <3> QED BY <1>1, <2>3, <3>2 DEF Mapped, Carries
  <2> QED BY <2>1, <2>2, <2>3 DEF Backed
<1>5. Backed(flows, mappings)' /\ flows' \in SUBSET Flow
  BY <1>1, <1>4 DEF Backed
<1>6. Table(mappings)'
  BY <1>1 DEF Table, Unique
<1> QED BY <1>1, <1>3, <1>5, <1>6

\* Time takes the same from a flow and from the mapping that carries it.
LEMMA TickPreserves == IInv /\ Tick => IInv'
<1> SUFFICES ASSUME IInv, Tick PROVE IInv'
  OBVIOUS
<1> USE DEF IInv
<1>1. /\ mappings' = {[m EXCEPT !.ttl = IF @ = 0 THEN 0 ELSE @ - 1] : m \in mappings}
      /\ flows' = {[f EXCEPT !.idle = @ + 1] :
                     f \in {g \in flows : g.idle + 1 < timeout(g.protocol, "established")}}
      /\ UNCHANGED <<next, forwards, address>>
  BY DEF Tick
<1>2. Table({[m EXCEPT !.ttl = IF @ = 0 THEN 0 ELSE @ - 1] : m \in mappings})
  BY TickKeeps
<1>3. Table(mappings)'
  BY <1>1, <1>2 DEF Table, Unique
<1>4. flows' \in SUBSET Flow
  BY <1>1 DEF Flow
<1>5. ASSUME NEW w \in flows' PROVE StaticFlow(w) \/ Mapped(w, mappings')
  <2>1. PICK f \in flows : w = [f EXCEPT !.idle = @ + 1]
    BY <1>1, <1>5
  <2>2. f \in Flow /\ f.idle \in Nat /\ f.protocol \in Protocols /\ "opening" \in Phases
    BY DEF Flow, Phases
  <2>3. /\ w.protocol = f.protocol /\ w.inside = f.inside /\ w.port = f.port
        /\ w.outside = f.outside /\ w.external = f.external /\ w.idle = f.idle + 1
    BY <2>1, <2>2 DEF Flow
  <2>4. timeout(f.protocol, "opening") \in Nat
    BY <2>2, TimeoutBound
  <2>5. CASE StaticFlow(f)
    BY <2>3, <2>5 DEF StaticFlow
  <2>6. CASE Mapped(f, mappings)
    <3>1. ASSUME w.idle < timeout(w.protocol, "opening") PROVE \E k \in mappings' : Carries(k, w)
      <4>1. f.idle < timeout(f.protocol, "opening")
        BY <2>2, <2>3, <2>4, <3>1
      <4>2. PICK m \in mappings : Carries(m, f)
        BY <2>6, <4>1 DEF Mapped
      <4>3. m \in Mapping /\ m.ttl \in Nat
        BY DEF Table, Mapping
      <4>4. m.ttl > 0 /\ (m.ttl - 1) + w.idle >= timeout(w.protocol, "opening")
        BY <2>2, <2>3, <2>4, <3>1, <4>2, <4>3 DEF Carries
      <4> DEFINE k == [m EXCEPT !.ttl = IF @ = 0 THEN 0 ELSE @ - 1]
      <4>5. k \in mappings'
        BY <1>1
      <4>6. /\ k.protocol = m.protocol /\ k.inside = m.inside /\ k.port = m.port
            /\ k.outside = m.outside /\ k.external = m.external /\ k.ttl = m.ttl - 1
        BY <4>3, <4>4 DEF Mapping
      <4> HIDE DEF k
      <4> QED BY <2>3, <4>2, <4>4, <4>5, <4>6 DEF Carries
    <3> QED BY <2>3, <2>6, <3>1 DEF Mapped
  <2> QED BY <2>5, <2>6 DEF Backed
<1>6. Backed(flows', mappings')
  BY <1>5 DEF Backed
<1> QED BY <1>1, <1>3, <1>4, <1>6, SameForwards

\* Every step preserves the invariant.
LEMMA NextIInv == IInv /\ [Next]_vars => IInv'
<1> SUFFICES ASSUME IInv, [Next]_vars PROVE IInv'
  OBVIOUS
<1>1. CASE Egress
  BY <1>1, EgressKeeps
<1>2. CASE Ingress
  BY <1>2, IngressKeeps
<1>3. CASE Hairpin
  BY <1>3, HairpinKeeps
<1>4. CASE Poll
  <2>1. Table(expire(mappings)) /\ Backed(flows, expire(mappings))
    BY ExpireKeeps, BackedExpire DEF IInv
  <2>2. mappings' = expire(mappings) /\ UNCHANGED <<next, forwards, address, flows>>
    BY <1>4 DEF Poll
  <2>3. Table(mappings)'
    BY <2>1, <2>2 DEF Table, Unique
  <2>4. Backed(flows', mappings')
    BY <2>1, <2>2
  <2> QED BY <2>2, <2>3, <2>4, SameForwards DEF IInv
<1>5. CASE AddForward
  BY <1>5, AddForwardKeeps
<1>6. CASE Renumber \/ UNCHANGED vars
  <2>1. UNCHANGED <<mappings, forwards, next, flows>>
    BY <1>6 DEF Renumber, vars
  <2>2. Table(mappings)'
    BY <2>1 DEF IInv, Table, Unique
  <2>3. Backed(flows', mappings')
    BY <2>1 DEF IInv
  <2>4. Statics' /\ Backed(flows, mappings)'
    BY <2>1, <2>3, SameForwards DEF IInv
  <2>5. address' \in Addresses \union {NoAddress}
    <3>1. CASE Renumber
      BY <3>1 DEF IInv, Renumber
    <3>2. CASE UNCHANGED vars
      BY <3>2 DEF IInv, vars
    <3> QED BY <1>6, <3>1, <3>2
  <2> QED BY <2>1, <2>2, <2>4, <2>5 DEF IInv
<1>7. CASE Restart
  <2>1. mappings' = {} /\ next' = FirstPort /\ forwards' \in {Startup, forwards} /\ flows' = {}
        /\ UNCHANGED address
    BY <1>7 DEF Restart
  <2>2. Table(mappings)'
    BY <2>1, FS_EmptySet, NatAssumption DEF Table, Unique
  <2>3. Statics'
    BY <2>1, NatAssumption DEF IInv, Statics
  <2>4. next' \in DynamicPorts
    BY <2>1, NatAssumption DEF DynamicPorts
  <2> QED BY <2>1, <2>2, <2>3, <2>4 DEF IInv, Backed
<1>8. CASE Tick
  BY <1>8, TickPreserves
<1> QED BY <1>1, <1>2, <1>3, <1>4, <1>5, <1>6, <1>7, <1>8 DEF Next

\* The invariant holds in every reachable state.
LEMMA InvariantHolds == Spec => []IInv
BY InitIInv, NextIInv, PTL DEF Spec

-----------------------------------------------------------------------------
(* What follows from it. *)

\* Every variable keeps its type.
THEOREM TypeCorrect == Spec => []TypeOK
<1>1. IInv => TypeOK
  BY DEF IInv, TypeOK, Table, Mapping, Flow, Phases, FlowPhases, Statics
<1> QED BY <1>1, InvariantHolds, PTL

\* The table of Nat never has two entries for an external port or for an inside endpoint of an
\* outside address, and never more than MAX_MAPPINGS.
THEOREM TableUnique == Spec => []MappingsUnique
<1>1. IInv => MappingsUnique
  BY DEF IInv, MappingsUnique, Table, Unique
<1> QED BY <1>1, InvariantHolds, PTL

\* Static forwards use ports outside the dynamic range, and no two of them lead to one endpoint.
\* The command line checks neither (cli.rs): a forward added on a mapped port takes over the answers of
\* the mapping, and of two forwards to one server only the first gives its answers their port.
StaticApart ==
    /\ \A f \in Forwards : f.outside_port \notin DynamicPorts
    /\ \A f, g \in Forwards :
           f.protocol = g.protocol /\ f.inside = g.inside /\ f.inside_port = g.inside_port => f = g

\* Return traffic of a live flow reaches the inside endpoint it belongs to: inbound finds the
\* flow's own forward or mapping, whatever was mapped, configured or renumbered meanwhile.
THEOREM ReturnTraffic ==
    ASSUME StaticApart
    PROVE  Spec => []RoundTrip
<1>1. ASSUME IInv, NEW f \in flows, Alive(f)
      PROVE  inbound(expire(mappings), f.protocol, f.outside, f.external) = {<<f.inside, f.port>>}
  <2>1. Backed(flows, expire(mappings)) /\ Table(expire(mappings))
    BY <1>1, BackedExpire, ExpireKeeps DEF IInv
  <2>2. CASE StaticFlow(f)
    <3>1. PICK i \in DOMAIN forwards :
              /\ forwards[i].protocol = f.protocol /\ forwards[i].outside_port = f.external
              /\ forwards[i].inside = f.inside /\ forwards[i].inside_port = f.port
      BY <2>2 DEF StaticFlow
    <3>2. forward_to(f.protocol, f.external) = {i}
      BY <1>1, <3>1 DEF forward_to, IInv, Statics
    <3>3. i \in Nat
      BY <1>1, <3>1, ForwardType DEF IInv
    <3>4. found({i}) = {i}
      BY <3>3 DEF found
    <3> QED BY <3>1, <3>2, <3>4 DEF inbound
  <2>3. CASE Mapped(f, expire(mappings))
    <3>1. f.external \in DynamicPorts /\ \E m \in expire(mappings) : Carries(m, f)
      BY <1>1, <2>3 DEF Mapped, Alive
    <3>2. forward_to(f.protocol, f.external) = {}
      BY <1>1, <3>1, ForwardType DEF forward_to, IInv, StaticApart
    <3>3. PICK m \in expire(mappings) : Carries(m, f)
      BY <3>1
    <3>4. mapping_to(expire(mappings), f.protocol, f.outside, f.external) = {m}
      BY <2>1, <3>3 DEF mapping_to, Carries, Table, Unique
    <3>5. {<<k.inside, k.port>> : k \in {m}} = {<<m.inside, m.port>>}
      OBVIOUS
    <3> QED BY <3>2, <3>3, <3>4, <3>5 DEF inbound, Carries
  <2> QED BY <1>1, <2>1, <2>2, <2>3 DEF Backed
<1>2. IInv => RoundTrip
  BY <1>1 DEF RoundTrip
<1> QED BY <1>2, InvariantHolds, PTL

\* The peer of a live flow goes on seeing the inside endpoint under the same port.
THEOREM SourceIsStable ==
    ASSUME StaticApart
    PROVE  Spec => []StableSource
<1>1. ASSUME IInv, NEW f \in flows, Alive(f), NEW kind \in Kinds(f.protocol)
      PROVE  outbound(expire(mappings), f.protocol, f.inside, f.port, f.outside, kind).port = f.external
  <2> DEFINE r == outbound(expire(mappings), f.protocol, f.inside, f.port, f.outside, kind)
             ms == expire(mappings)
  <2>1. Backed(flows, ms) /\ Table(ms)
    BY <1>1, BackedExpire, ExpireKeeps DEF IInv
  <2>2. f \in Flow /\ f.outside \in Addresses /\ f.outside # NoAddress
    BY <1>1, NatAssumption DEF IInv, Flow
  <2>3. CASE StaticFlow(f)
    <3>1. PICK i \in DOMAIN forwards :
              /\ forwards[i].protocol = f.protocol /\ forwards[i].outside_port = f.external
              /\ forwards[i].inside = f.inside /\ forwards[i].inside_port = f.port
      BY <2>3 DEF StaticFlow
    <3>2. \A j \in DOMAIN forwards : forwards[j] \in Forwards
      BY <1>1, ForwardType DEF IInv
    <3>3. forward_of(f.protocol, f.inside, f.port) = {i}
      <4>1. ASSUME NEW j \in forward_of(f.protocol, f.inside, f.port) PROVE j = i
        <5>1. j \in DOMAIN forwards /\ forwards[j] = forwards[i]
          BY <3>1, <3>2, <4>1 DEF forward_of, StaticApart
        <5> QED BY <1>1, <5>1 DEF IInv, Statics
      <4>2. i \in forward_of(f.protocol, f.inside, f.port)
        BY <3>1 DEF forward_of
      <4> QED BY <4>1, <4>2
    <3>4. i \in Nat
      BY <1>1, <3>1, ForwardType DEF IInv
    <3>5. found({i}) = {i}
      BY <3>4 DEF found
    <3>6. (CHOOSE j \in {i} : TRUE) = i
      OBVIOUS
    <3>7. r = [port |-> forwards[i].outside_port, mappings |-> ms, next |-> next]
      BY <2>2, <3>3, <3>5, <3>6 DEF outbound
    <3> QED BY <3>1, <3>7
  <2>4. CASE Mapped(f, ms)
    <3>1. forward_of(f.protocol, f.inside, f.port) = {} /\ \E m \in ms : Carries(m, f)
      BY <1>1, <2>4 DEF Mapped, Alive
    <3>2. PICK m \in ms : Carries(m, f)
      BY <3>1
    <3>3. mapping_of(ms, f.protocol, f.inside, f.port, f.outside) = {m}
      BY <2>1, <3>2 DEF mapping_of, Carries, Table, Unique
    <3>4. (CHOOSE k \in {m} : TRUE) = m
      OBVIOUS
    <3>5. r = [port |-> m.external, mappings |-> (ms \ {m}) \union {touch(m, kind)}, next |-> next]
      BY <2>2, <3>1, <3>3, <3>4 DEF outbound
    <3> QED BY <3>2, <3>5 DEF Carries
  <2> QED BY <1>1, <2>1, <2>3, <2>4 DEF Backed
<1>2. IInv => StableSource
  BY <1>1 DEF StableSource
<1> QED BY <1>2, InvariantHolds, PTL

\* ICMP errors about a live flow take the way of the flow: translate_error searches the table
\* before the forwards and the packets' own translation after them, and where only one of the
\* two knows the endpoint both orders find the same.
THEOREM ErrorsAreDelivered ==
    ASSUME StaticApart
    PROVE  Spec => []ErrorsFollowFlow
<1>1. ASSUME IInv, NEW f \in flows, Alive(f), ~Doubled(f)
      PROVE  /\ error_target(expire(mappings), f.protocol, f.outside, f.external) = {<<f.inside, f.port>>}
             /\ error_source(expire(mappings), f.protocol, f.inside, f.port, f.outside) = {f.external}
  <2> DEFINE ms == expire(mappings)
  <2>1. Backed(flows, ms) /\ Table(ms)
    BY <1>1, BackedExpire, ExpireKeeps DEF IInv
  <2>2. CASE StaticFlow(f)
    <3>1. PICK i \in DOMAIN forwards :
              /\ forwards[i].protocol = f.protocol /\ forwards[i].outside_port = f.external
              /\ forwards[i].inside = f.inside /\ forwards[i].inside_port = f.port
      BY <2>2 DEF StaticFlow
    <3>2. \A j \in DOMAIN forwards : forwards[j] \in Forwards
      BY <1>1, ForwardType DEF IInv
    <3>3. forward_to(f.protocol, f.external) = {i}
      BY <1>1, <3>1 DEF forward_to, IInv, Statics
    <3>4. forward_of(f.protocol, f.inside, f.port) = {i}
      <4>1. ASSUME NEW j \in forward_of(f.protocol, f.inside, f.port) PROVE j = i
        <5>1. j \in DOMAIN forwards /\ forwards[j] = forwards[i]
          BY <3>1, <3>2, <4>1 DEF forward_of, StaticApart
        <5> QED BY <1>1, <5>1 DEF IInv, Statics
      <4>2. i \in forward_of(f.protocol, f.inside, f.port)
        BY <3>1 DEF forward_of
      <4> QED BY <4>1, <4>2
    <3>5. found({i}) = {i}
      BY <1>1, <3>1, ForwardType DEF found, IInv
    <3>6. mapping_to(ms, f.protocol, f.outside, f.external) = {}
      BY <2>1, <3>1, <3>2 DEF mapping_to, Table, Mapping, StaticApart
    <3>7. mapping_of(ms, f.protocol, f.inside, f.port, f.outside) = {}
      BY <1>1, <3>4 DEF Doubled, mapping_of, expire
    <3> QED BY <3>1, <3>3, <3>4, <3>5, <3>6, <3>7 DEF error_target, error_source
  <2>3. CASE Mapped(f, ms)
    <3>1. PICK m \in ms : Carries(m, f)
      BY <1>1, <2>3 DEF Mapped, Alive
    <3>2. mapping_to(ms, f.protocol, f.outside, f.external) = {m}
      BY <2>1, <3>1 DEF mapping_to, Carries, Table, Unique
    <3>3. mapping_of(ms, f.protocol, f.inside, f.port, f.outside) = {m}
      BY <2>1, <3>1 DEF mapping_of, Carries, Table, Unique
    <3>4. {<<k.inside, k.port>> : k \in {m}} = {<<m.inside, m.port>>} /\ {k.external : k \in {m}} = {m.external}
      OBVIOUS
    <3> QED BY <3>1, <3>2, <3>3, <3>4 DEF error_target, error_source, Carries
  <2> QED BY <1>1, <2>1, <2>2, <2>3 DEF Backed
<1>2. IInv => ErrorsFollowFlow
  BY <1>1 DEF ErrorsFollowFlow
<1> QED BY <1>2, InvariantHolds, PTL

-----------------------------------------------------------------------------
(* Established connections. *)

\* The mapping stands for the flow.
Stands(m, f) ==
    /\ m.protocol = f.protocol /\ m.inside = f.inside /\ m.port = f.port
    /\ m.outside = f.outside /\ m.external = f.external

\* An established flow has an established mapping, which gives it the long timeout; and a mapping
\* that is closing is one whose flow is.
Lasts(f, ms) ==
    /\ f.phase = "established" =>
           \E m \in ms : /\ Stands(m, f) /\ m.phase = "established"
                         /\ m.ttl + f.idle >= TCP_ESTABLISHED_TIMEOUT
    /\ \A m \in ms : Stands(m, f) /\ m.phase = "closing" => f.phase = "closing"

\* The flows that are alone, which are TCP's, have a forward or a mapping that lasts.
Kept(f, ms) ==
    f.protocol = "tcp" /\ f.idle < TCP_ESTABLISHED_TIMEOUT /\ (StaticFlow(f) \/ Lasts(f, ms))

Lasting(fs, ms) == \A f \in fs : f.alone => Kept(f, ms)

LInv == IInv /\ Lasting(flows, mappings)

\* A flow is kept by what it is, not by being alone.
LEMMA LikeKept ==
    ASSUME NEW ms, NEW f, NEW g, Like(g, f), Kept(f, ms)
    PROVE  Kept(g, ms)
<1>1. \A m \in ms : Stands(m, g) <=> Stands(m, f)
  BY DEF Like, Stands
<1>2. StaticFlow(f) => StaticFlow(g)
  BY DEF Like, StaticFlow
<1>3. Lasts(f, ms) => Lasts(g, ms)
  BY <1>1 DEF Like, Lasts
<1> QED BY <1>2, <1>3 DEF Like, Kept

\* touch() of a TCP mapping: the phase goes on, and the timeout is the long one in an established
\* phase and never longer.
LEMMA TouchTcp ==
    ASSUME NEW m \in Mapping, m.protocol = "tcp", NEW kind \in Kinds("tcp")
    PROVE  /\ touch(m, kind).phase = phase_after(m.phase, kind)
           /\ touch(m, kind).ttl \in Nat /\ touch(m, kind).ttl <= TCP_ESTABLISHED_TIMEOUT
           /\ touch(m, kind).phase = "established" => touch(m, kind).ttl = TCP_ESTABLISHED_TIMEOUT
<1> DEFINE ph == phase_after(m.phase, kind)
<1>1. touch(m, kind) = [m EXCEPT !.phase = ph, !.ttl = timeout(m.protocol, ph)]
  BY DEF touch
<1> HIDE DEF ph
<1>2. touch(m, kind).phase = ph /\ touch(m, kind).ttl = timeout("tcp", ph)
  BY <1>1 DEF Mapping
<1>3. timeout("tcp", ph) = IF ph = "established" THEN TCP_ESTABLISHED_TIMEOUT ELSE TCP_TRANSITORY_TIMEOUT
  BY DEF timeout
<1> QED BY <1>2, <1>3, NatAssumption DEF ph

\* One segment takes a flow and its mapping to phases that still agree.
LEMMA PhasesAgree ==
    ASSUME NEW b \in FlowPhases, NEW ph \in Phases, NEW kind \in Kinds("tcp"),
           ph = "closing" => b = "closing",
           b = "established" => ph = "established"
    PROVE  /\ phase_after(ph, kind) = "closing" => flow_phase(b, kind) = "closing"
           /\ flow_phase(b, kind) = "established" => phase_after(ph, kind) = "established"
<1>1. kind \in {"SYN", "ACK", "FIN", "DATA"}
  BY DEF Kinds
<1> QED BY <1>1 DEF phase_after, flow_phase, Phases, FlowPhases

\* A segment of another flow keeps a flow's time unless it carries SYN, FIN or RST: one through
\* a mapping of another endpoint, and one without these flags through the flow's own mapping.
LEMMA TouchedLasts ==
    ASSUME NEW f \in Flow, NEW ms \in SUBSET Mapping, Lasts(f, ms),
           NEW m \in Mapping, m.protocol = "tcp", NEW kind \in Kinds("tcp"),
           m \in ms \/ m.phase # "closing",
           Stands(m, f) => kind \notin {"SYN", "FIN"}
    PROVE  Lasts(f, (ms \ {m}) \union {touch(m, kind)})
<1> DEFINE t == touch(m, kind)
           ks == (ms \ {m}) \union {t}
<1>1. /\ t.protocol = m.protocol /\ t.inside = m.inside /\ t.port = m.port /\ t.outside = m.outside
      /\ t.external = m.external /\ t.phase = phase_after(m.phase, kind)
      /\ t.ttl \in Nat /\ (t.phase = "established" => t.ttl = TCP_ESTABLISHED_TIMEOUT)
  BY TouchKeeps, TouchTcp
<1>2. ks = (ms \ {m}) \union {t}
  OBVIOUS
<1> HIDE DEF t, ks
<1>3. Stands(t, f) <=> Stands(m, f)
  BY <1>1 DEF Stands
<1>4. kind \in {"SYN", "ACK", "FIN", "DATA"} /\ m.phase \in Phases /\ f.idle \in Nat
      /\ TCP_ESTABLISHED_TIMEOUT \in Nat
  BY NatAssumption DEF Kinds, Mapping, Flow
<1>5. Stands(m, f) => /\ m.phase = "established" => t.phase = "established"
                      /\ t.phase = "closing" => m.phase = "closing"
  BY <1>1, <1>4 DEF phase_after, Phases
<1>6. ASSUME f.phase = "established"
      PROVE  \E k \in ks : /\ Stands(k, f) /\ k.phase = "established"
                           /\ k.ttl + f.idle >= TCP_ESTABLISHED_TIMEOUT
  <2>1. PICK k \in ms : /\ Stands(k, f) /\ k.phase = "established"
                        /\ k.ttl + f.idle >= TCP_ESTABLISHED_TIMEOUT
    BY <1>6 DEF Lasts
  <2>2. CASE k # m
    BY <1>2, <2>1, <2>2
  <2>3. CASE k = m
    <3>1. Stands(t, f) /\ t.phase = "established"
      BY <1>3, <1>5, <2>1, <2>3
    <3>2. t.ttl + f.idle >= TCP_ESTABLISHED_TIMEOUT
      BY <1>1, <1>4, <3>1
    <3> QED BY <1>2, <3>1, <3>2
  <2> QED BY <2>2, <2>3
<1>7. ASSUME NEW k \in ks, Stands(k, f), k.phase = "closing"
      PROVE  f.phase = "closing"
  <2>1. CASE k \in ms
    BY <1>7, <2>1 DEF Lasts
  <2>2. CASE k = t
    <3>1. Stands(m, f) /\ m.phase = "closing"
      BY <1>3, <1>5, <1>7, <2>2
    <3>2. m \in ms
      BY <3>1
    <3> QED BY <3>1, <3>2 DEF Lasts
  <2> QED BY <1>2, <1>7, <2>1, <2>2
<1>8. Lasts(f, ks)
  BY <1>6, <1>7 DEF Lasts
<1> QED BY <1>8 DEF ks, t

\* A segment touches one mapping of a TCP table, an old one or a new one, and no flow that stays
\* alone is disturbed by it.
LEMMA DisturbKept ==
    ASSUME NEW f \in Flow, NEW ms \in SUBSET Mapping, Kept(f, ms), StaticApart, Statics,
           NEW m \in Mapping, m.protocol = "tcp", NEW kind \in Kinds("tcp"),
           m \in ms \/ m.phase # "closing", NEW peer,
           ~Disturbed(f, "tcp", peer, m.inside, m.port, m.outside, m.external, kind),
           Stands(m, f) => f.peer # peer
    PROVE  Kept(f, (ms \ {m}) \union {touch(m, kind)})
<1>1. CASE StaticFlow(f)
  BY <1>1 DEF Kept
<1>2. CASE Lasts(f, ms)
  <2>1. forward_to("tcp", m.external) = {}
    BY ForwardType DEF Mapping, StaticApart, forward_to
  <2>2. Stands(m, f) => kind \notin {"SYN", "FIN"}
    BY <2>1 DEF Disturbed, Stands
  <2>3. Lasts(f, (ms \ {m}) \union {touch(m, kind)})
    BY <1>2, <2>2, TouchedLasts
  <2> QED BY <2>3 DEF Kept
<1> QED BY <1>1, <1>2 DEF Kept

\* A segment that belongs to no flow, or is dropped after it has touched a mapping.
LEMMA DisturbLasts ==
    ASSUME StaticApart, Statics, NEW fs \in SUBSET Flow, NEW ms \in SUBSET Mapping, Lasting(fs, ms),
           NEW m \in ms, m.protocol = "tcp", NEW kind \in Kinds("tcp"), NEW peer,
           \A f \in fs : Stands(m, f) => f.peer # peer
    PROVE  Lasting(Disturb(fs, "tcp", peer, m.inside, m.port, m.outside, m.external, kind),
                   (ms \ {m}) \union {touch(m, kind)})
<1> DEFINE ks == (ms \ {m}) \union {touch(m, kind)}
           gs == Disturb(fs, "tcp", peer, m.inside, m.port, m.outside, m.external, kind)
<1> SUFFICES ASSUME NEW g \in gs, g.alone PROVE Kept(g, ks)
  BY DEF Lasting
<1>1. PICK f \in fs : /\ Like(g, f) /\ f.alone
                      /\ ~Disturbed(f, "tcp", peer, m.inside, m.port, m.outside, m.external, kind)
  BY DisturbIs
<1>2. f \in Flow /\ Kept(f, ms) /\ m \in Mapping
  BY <1>1 DEF Lasting
<1>3. Kept(f, ks)
  BY <1>1, <1>2, DisturbKept
<1> HIDE DEF ks
<1> QED BY <1>1, <1>3, LikeKept

\* A segment of a flow, translated by a mapping of its endpoint, an old one or a new one.
LEMMA TranslatedLasts ==
    ASSUME StaticApart, Statics, NEW fs \in SUBSET Flow, NEW ms \in SUBSET Mapping, Lasting(fs, ms),
           NEW peer \in Peers \union Addresses, NEW h \in Hosts, NEW p \in Ports, NEW out \in Addresses,
           NEW kind \in Kinds("tcp"), "tcp" \in Protocols,
           NEW m \in Mapping, m.protocol = "tcp", m.inside = h, m.port = p, m.outside = out,
           \A k \in ms : (/\ k.protocol = "tcp" /\ k.inside = h /\ k.port = p
                          /\ k.outside = out) => k = m,
           m \in ms \/ m.phase # "closing"
    PROVE  Lasting(Renew(fs, "tcp", peer, h, p, out, m.external, kind),
                   (ms \ {m}) \union {touch(m, kind)})
<1> DEFINE t == touch(m, kind)
           gs == Renew(fs, "tcp", peer, h, p, out, m.external, kind)
           ks == (ms \ {m}) \union {t}
<1>1. m.external \in Nat \ {0} /\ m.phase \in Phases
  BY NatAssumption DEF Mapping, DynamicPorts
<1>2. PICK w \in Flow, b \in FlowPhases : Successor(w, b, fs, "tcp", peer, h, p, out, m.external, kind)
  BY <1>1, RenewExact
<1>3. /\ t.protocol = "tcp" /\ t.inside = h /\ t.port = p /\ t.outside = out
      /\ t.external = m.external /\ t.phase = phase_after(m.phase, kind)
      /\ t.ttl \in Nat /\ (t.phase = "established" => t.ttl = TCP_ESTABLISHED_TIMEOUT)
  BY TouchKeeps, TouchTcp
<1>4. ks = (ms \ {m}) \union {t}
  OBVIOUS
<1> HIDE DEF t, gs, ks
<1>5. TCP_ESTABLISHED_TIMEOUT \in Nat \ {0}
  BY NatAssumption
<1>6. /\ w.protocol = "tcp" /\ w.inside = h /\ w.port = p /\ w.outside = out
      /\ w.external = m.external /\ w.idle = 0 /\ w.phase = flow_phase(b, kind)
      /\ w.alone => \/ kind = "SYN"
                    \/ \E f \in fs : /\ SameFlow(f, "tcp", peer, h, p, out) /\ f.external = m.external
                                     /\ b = f.phase /\ f.alone
  BY <1>2 DEF Successor
\* The flow itself: its phase and the mapping's go on together.
<1>7. ASSUME w.alone PROVE Kept(w, ks)
  <2>1. /\ t.phase = "closing" => w.phase = "closing"
        /\ w.phase = "established" => t.phase = "established"
    <3>1. CASE kind = "SYN"
      BY <1>3, <1>6, <3>1 DEF flow_phase, phase_after
    <3>2. CASE kind # "SYN"
      <4>1. PICK f \in fs : /\ SameFlow(f, "tcp", peer, h, p, out) /\ f.external = m.external
                            /\ b = f.phase /\ f.alone
        BY <1>6, <1>7, <3>2
      <4>2. Kept(f, ms) /\ Stands(m, f)
        BY <4>1 DEF Lasting, SameFlow, Stands
      <4>3. ~StaticFlow(f)
        BY <4>1, ForwardType DEF StaticFlow, StaticApart, Mapping
      <4>4. Lasts(f, ms)
        BY <4>2, <4>3 DEF Kept
      <4>5. m.phase = "closing" => b = "closing"
        BY <4>1, <4>2, <4>4 DEF Lasts
      <4>6. b = "established" => m.phase = "established"
        BY <4>1, <4>4 DEF Lasts, Stands, SameFlow
      <4> QED BY <1>1, <1>3, <1>6, <4>5, <4>6, PhasesAgree
    <3> QED BY <3>1, <3>2
  <2>2. Stands(t, w) /\ t \in ks
    BY <1>3, <1>4, <1>6 DEF Stands
  <2>3. \A k \in ks : Stands(k, w) => k = t
    BY <1>4, <1>6 DEF Stands
  <2>4. t.phase = "established" => t.ttl + w.idle >= TCP_ESTABLISHED_TIMEOUT
    BY <1>3, <1>5, <1>6
  <2>5. Lasts(w, ks)
    BY <2>1, <2>2, <2>3, <2>4 DEF Lasts
  <2> QED BY <1>5, <1>6, <2>5 DEF Kept
\* The other flows.
<1>8. ASSUME NEW g \in gs, g.alone, g # w PROVE Kept(g, ks)
  <2>1. PICK f \in fs : /\ Like(g, f) /\ ~SameFlow(f, "tcp", peer, h, p, out) /\ f.alone
                        /\ ~Disturbed(f, "tcp", peer, h, p, out, m.external, kind)
    BY <1>2, <1>8 DEF Successor, gs
  <2>2. f \in Flow /\ Kept(f, ms) /\ (Stands(m, f) => f.peer # peer)
    BY <2>1 DEF Lasting, Stands, SameFlow
  <2>3. Kept(f, ks)
    BY <2>1, <2>2, DisturbKept DEF ks, t
  <2> QED BY <2>1, <2>3, LikeKept
<1>9. Lasting(gs, ks)
  BY <1>7, <1>8 DEF Lasting
<1> QED BY <1>9 DEF gs, ks, t

\* A segment translated by a forward.
LEMMA ForwardedLasts ==
    ASSUME NEW fs \in SUBSET Flow, NEW ms \in SUBSET Mapping, Lasting(fs, ms), Statics,
           NEW peer \in Peers \union Addresses, NEW out \in Addresses, NEW kind \in Kinds("tcp"),
           "tcp" \in Protocols, NEW i \in DOMAIN forwards, forwards[i].protocol = "tcp"
    PROVE  Lasting(Renew(fs, "tcp", peer, forwards[i].inside, forwards[i].inside_port, out,
                         forwards[i].outside_port, kind), ms)
<1> DEFINE h == forwards[i].inside
           p == forwards[i].inside_port
           n == forwards[i].outside_port
           gs == Renew(fs, "tcp", peer, h, p, out, n, kind)
<1>1. h \in Hosts /\ p \in Ports /\ n \in Nat \ {0}
  BY ForwardType
<1>2. PICK w \in Flow, b \in FlowPhases : Successor(w, b, fs, "tcp", peer, h, p, out, n, kind)
  BY <1>1, RenewExact
<1>3. /\ w.protocol = "tcp" /\ w.inside = h /\ w.port = p /\ w.external = n /\ w.idle = 0
      /\ \A g \in gs : g = w \/ \E f \in fs : Like(g, f) /\ (g.alone => f.alone)
  BY <1>2 DEF Successor
<1>4. Kept(w, ms)
  BY <1>3, NatAssumption DEF StaticFlow, Kept
<1> HIDE DEF gs
<1>5. Lasting(gs, ms)
  BY <1>3, <1>4, LikeKept DEF Lasting
<1> QED BY <1>5 DEF gs

\* Expired mappings carry no flow.
LEMMA ExpireLasts ==
    ASSUME NEW fs \in SUBSET Flow, NEW ms \in SUBSET Mapping, Lasting(fs, ms)
    PROVE  Lasting(fs, expire(ms))
<1> SUFFICES ASSUME NEW f \in fs, f.idle < TCP_ESTABLISHED_TIMEOUT, Lasts(f, ms)
             PROVE  Lasts(f, expire(ms))
  BY DEF Lasting, Kept
<1>1. \A m \in ms : m.ttl + f.idle >= TCP_ESTABLISHED_TIMEOUT => m \in expire(ms)
  <2> TAKE m \in ms
  <2>1. m.ttl \in Nat /\ f.idle \in Nat /\ TCP_ESTABLISHED_TIMEOUT \in Nat
    BY NatAssumption DEF Mapping, Flow
  <2> QED BY <2>1 DEF expire
<1>2. expire(ms) \subseteq ms
  BY DEF expire
<1> QED BY <1>1, <1>2 DEF Lasts

\* A table with the same TCP mappings.
LEMMA AsideLasts ==
    ASSUME NEW fs \in SUBSET Flow, NEW ms, NEW ks, Lasting(fs, ms),
           \A m : m.protocol = "tcp" => (m \in ks <=> m \in ms)
    PROVE  Lasting(fs, ks)
<1>1. \A f \in fs : f.protocol = "tcp" /\ Lasts(f, ms) => Lasts(f, ks)
  BY DEF Lasts, Stands
<1> QED BY <1>1 DEF Lasting, Kept

\* Renewing a flow of another protocol, which is never alone.
LEMMA RenewAside ==
    ASSUME NEW fs \in SUBSET Flow, NEW ms, Lasting(fs, ms),
           NEW pr \in Protocols, pr # "tcp", NEW peer \in Peers \union Addresses,
           NEW h \in Hosts, NEW p \in Ports, NEW out \in Addresses, NEW n \in Nat \ {0},
           NEW kind \in Kinds(pr)
    PROVE  /\ Renew(fs, pr, peer, h, p, out, n, kind) \in SUBSET Flow
           /\ Lasting(Renew(fs, pr, peer, h, p, out, n, kind), ms)
<1> DEFINE gs == Renew(fs, pr, peer, h, p, out, n, kind)
<1>1. PICK w \in Flow, b \in FlowPhases : Successor(w, b, fs, pr, peer, h, p, out, n, kind)
  BY RenewExact
<1>2. kind = "DATA"
  BY DEF Kinds
<1>3. ~w.alone
  BY <1>1, <1>2 DEF Successor, SameFlow, Lasting, Kept
<1>4. \A g \in gs : g = w \/ (g \in Flow /\ \E f \in fs : Like(g, f) /\ (g.alone => f.alone))
  BY <1>1 DEF Successor
<1> HIDE DEF gs
<1>5. gs \in SUBSET Flow /\ Lasting(gs, ms)
  BY <1>3, <1>4, LikeKept DEF Lasting
<1> QED BY <1>5 DEF gs

\* Disturbing flows in a table that stays as it is.
LEMMA DisturbAside ==
    ASSUME NEW fs \in SUBSET Flow, NEW ms, Lasting(fs, ms), NEW pr, NEW peer, NEW h, NEW p,
           NEW out, NEW n, NEW kind
    PROVE  /\ Disturb(fs, pr, peer, h, p, out, n, kind) \in SUBSET Flow
           /\ Lasting(Disturb(fs, pr, peer, h, p, out, n, kind), ms)
<1> DEFINE gs == Disturb(fs, pr, peer, h, p, out, n, kind)
<1>1. \A g \in gs : g \in Flow /\ \E f \in fs : Like(g, f) /\ (g.alone => f.alone)
  BY DisturbIs
<1> HIDE DEF gs
<1>2. gs \in SUBSET Flow /\ Lasting(gs, ms)
  BY <1>1, LikeKept DEF Lasting
<1> QED BY <1>2 DEF gs

\* A packet from inside.
LEMMA OutboundLasts ==
    ASSUME StaticApart, NEW fs \in SUBSET Flow, NEW ms, Table(ms), Lasting(fs, ms),
           Statics, next \in DynamicPorts,
           NEW pr \in Protocols, NEW peer \in Peers \union Addresses, NEW h \in Hosts, NEW p \in Ports,
           NEW out \in Addresses \union {NoAddress}, NEW kind \in Kinds(pr),
           NEW r, r = outbound(ms, pr, h, p, out, kind)
    PROVE  Lasting(IF r.port = 0 THEN fs ELSE Renew(fs, pr, peer, h, p, out, r.port, kind), r.mappings)
<1> DEFINE gs == Renew(fs, pr, peer, h, p, out, r.port, kind)
<1>0. ms \in SUBSET Mapping /\ Unique(ms)
  BY DEF Table
<1>1. CASE r.port = 0 /\ r.mappings = ms
  BY <1>1
<1>2. CASE r.port # 0 /\ pr # "tcp"
  <2>1. r.port \in Nat \ {0} /\ out \in Addresses
    BY <1>2, OutboundKeeps
  <2>2. gs \in SUBSET Flow /\ Lasting(gs, ms)
    BY <1>2, <2>1, RenewAside
  <2>3. \A m : m.protocol = "tcp" => (m \in r.mappings <=> m \in ms)
    <3>1. CASE r.mappings = ms
      BY <3>1
    <3>2. CASE \E m \in mapping_of(ms, pr, h, p, out) : r.mappings = (ms \ {m}) \union {touch(m, kind)}
      <4>1. PICK m \in ms : m.protocol = pr /\ r.mappings = (ms \ {m}) \union {touch(m, kind)}
        BY <3>2 DEF mapping_of
      <4>2. touch(m, kind).protocol = pr
        BY <1>0, <4>1, TouchKeeps
      <4> QED BY <1>2, <4>1, <4>2
    <3>3. CASE /\ out \in Addresses /\ r.port \in free(ms, pr, h, out)
               /\ r.mappings = ms \union {touch(NewMapping(pr, h, p, out, r.port), kind)}
      <4> DEFINE new == NewMapping(pr, h, p, out, r.port)
      <4>1. new \in Mapping /\ new.protocol = pr
        BY <3>3 DEF NewMapping, Mapping, Phases, free
      <4> HIDE DEF new
      <4>2. touch(new, kind).protocol = pr
        BY <4>1, TouchKeeps
      <4>3. r.mappings = ms \union {touch(new, kind)}
        BY <3>3 DEF new
      <4> QED BY <1>2, <4>2, <4>3
    <3> QED BY <3>1, <3>2, <3>3, OutboundCases
  <2> HIDE DEF gs
  <2>5. Lasting(gs, r.mappings)
    BY <2>2, <2>3, AsideLasts
  <2> QED BY <1>2, <2>5 DEF gs
<1>3. CASE /\ r.port # 0 /\ pr = "tcp" /\ out \in Addresses /\ r.mappings = ms
           /\ \E i \in found(forward_of(pr, h, p)) : r.port = forwards[i].outside_port
  <2>1. PICK i \in DOMAIN forwards :
            /\ forwards[i].protocol = "tcp" /\ forwards[i].inside = h /\ forwards[i].inside_port = p
            /\ r.port = forwards[i].outside_port
    BY <1>3 DEF found, forward_of
  <2>2. Lasting(Renew(fs, "tcp", peer, forwards[i].inside, forwards[i].inside_port, out,
                      forwards[i].outside_port, kind), ms)
    BY <1>0, <1>3, <2>1, ForwardedLasts
  <2> QED BY <1>3, <2>1, <2>2
<1>4. CASE /\ r.port # 0 /\ pr = "tcp" /\ out \in Addresses /\ forward_of(pr, h, p) = {}
           /\ \E m \in mapping_of(ms, pr, h, p, out) :
                  r.port = m.external /\ r.mappings = (ms \ {m}) \union {touch(m, kind)}
  <2>1. PICK m \in ms : /\ m.protocol = "tcp" /\ m.inside = h /\ m.port = p /\ m.outside = out
                        /\ r.port = m.external
                        /\ r.mappings = (ms \ {m}) \union {touch(m, kind)}
    BY <1>4 DEF mapping_of
  <2>2. m \in Mapping /\ \A k \in ms : (/\ k.protocol = "tcp" /\ k.inside = h /\ k.port = p
                                        /\ k.outside = out) => k = m
    BY <1>0, <2>1 DEF Unique
  <2>4. Lasting(Renew(fs, "tcp", peer, h, p, out, m.external, kind), (ms \ {m}) \union {touch(m, kind)})
    BY <1>0, <1>4, <2>1, <2>2, TranslatedLasts
  <2> QED BY <1>4, <2>1, <2>4
<1>5. CASE /\ r.port # 0 /\ pr = "tcp" /\ out \in Addresses
           /\ mapping_of(ms, pr, h, p, out) = {}
           /\ r.port \in free(ms, pr, h, out)
           /\ r.mappings = ms \union {touch(NewMapping(pr, h, p, out, r.port), kind)}
  <2> DEFINE m == NewMapping("tcp", h, p, out, r.port)
  <2>1. /\ m \in Mapping /\ m.protocol = "tcp" /\ m.inside = h /\ m.port = p /\ m.outside = out
        /\ m.external = r.port /\ m.phase # "closing"
    BY <1>5 DEF NewMapping, Mapping, Phases, free
  <2>2. r.mappings = ms \union {touch(m, kind)}
    BY <1>5
  <2> HIDE DEF m
  <2>3. \A k \in ms : ~(k.protocol = "tcp" /\ k.inside = h /\ k.port = p /\ k.outside = out)
    BY <1>5 DEF mapping_of
  <2>4. (ms \ {m}) \union {touch(m, kind)} = r.mappings
    BY <2>1, <2>2, <2>3
  <2>5. Lasting(Renew(fs, "tcp", peer, h, p, out, m.external, kind), (ms \ {m}) \union {touch(m, kind)})
    BY <1>0, <1>5, <2>1, <2>3, TranslatedLasts
  <2> QED BY <1>5, <2>1, <2>4, <2>5
<1>6. /\ \A i \in found(forward_of(pr, h, p)) : forwards[i].outside_port # 0
      /\ \A m \in mapping_of(ms, pr, h, p, out) : m.external # 0
      /\ \A n \in free(ms, pr, h, out) : n # 0
  <2>1. \A n \in DynamicPorts : n # 0
    BY NatAssumption DEF DynamicPorts
  <2>2. \A i \in found(forward_of(pr, h, p)) : forwards[i].outside_port # 0
    BY ForwardType DEF found, forward_of
  <2> QED BY <1>0, <2>1, <2>2 DEF mapping_of, free, Mapping
<1>7. r.port = 0 => r.mappings = ms
  BY <1>6, OutboundCases
<1> QED
  <2>1. CASE r.port = 0
    BY <1>1, <1>7, <2>1
  <2>2. CASE r.port # 0 /\ pr = "tcp"
    BY <1>3, <1>4, <1>5, <2>2, OutboundCases
  <2> QED BY <1>2, <2>1, <2>2

\* A packet of another protocol from outside leaves the TCP mappings as they are.
LEMMA InboundAside ==
    ASSUME NEW fs \in SUBSET Flow, NEW ms \in SUBSET Mapping, Lasting(fs, ms),
           NEW pr \in Protocols, pr # "tcp", NEW out, NEW n, NEW kind \in Kinds(pr)
    PROVE  Lasting(fs, inbound_table(ms, pr, out, n, kind))
<1> DEFINE ks == inbound_table(ms, pr, out, n, kind)
<1>1. CASE forward_to(pr, n) # {}
  BY <1>1 DEF inbound_table
<1>2. CASE forward_to(pr, n) = {}
  <2>1. ks = {IF k \in mapping_to(ms, pr, out, n) THEN touch(k, kind) ELSE k : k \in ms}
    BY <1>2 DEF inbound_table
  <2> HIDE DEF ks
  <2>2. \A k \in mapping_to(ms, pr, out, n) : k.protocol = pr /\ touch(k, kind).protocol = pr
    BY TouchKeeps DEF mapping_to
  <2>3. \A m : m.protocol = "tcp" => (m \in ks <=> m \in ms)
    <3> SUFFICES ASSUME NEW m, m.protocol = "tcp" PROVE m \in ks <=> m \in ms
      OBVIOUS
    <3>1. ASSUME m \in ks PROVE m \in ms
      <4>1. PICK k \in ms : m = IF k \in mapping_to(ms, pr, out, n) THEN touch(k, kind) ELSE k
        BY <2>1, <3>1
      <4> QED BY <2>2, <4>1
    <3>2. ASSUME m \in ms PROVE m \in ks
      <4>1. m \notin mapping_to(ms, pr, out, n)
        BY <2>2
      <4> QED BY <2>1, <3>2, <4>1
    <3> QED BY <3>1, <3>2
  <2>5. Lasting(fs, ks)
    BY <2>3, AsideLasts
  <2> QED BY <2>5 DEF ks
<1> QED BY <1>1, <1>2

\* What a TCP segment from outside does to a table where it finds a mapping.
LEMMA InboundTcp ==
    ASSUME NEW ms, Table(ms), NEW out, NEW n, NEW kind \in Kinds("tcp"),
           forward_to("tcp", n) = {}, NEW to \in inbound(ms, "tcp", out, n)
    PROVE  \E m \in ms : /\ m.protocol = "tcp" /\ m.outside = out /\ m.external = n
                         /\ to[1] = m.inside /\ to[2] = m.port
                         /\ inbound_table(ms, "tcp", out, n, kind) = (ms \ {m}) \union {touch(m, kind)}
<1>1. PICK m \in mapping_to(ms, "tcp", out, n) : to = <<m.inside, m.port>>
  BY DEF inbound
<1>2. /\ m \in ms /\ m.protocol = "tcp" /\ m.outside = out /\ m.external = n
      /\ to[1] = m.inside /\ to[2] = m.port
  BY <1>1 DEF mapping_to
<1>3. mapping_to(ms, "tcp", out, n) = {m}
  BY <1>2 DEF mapping_to, Table, Unique
<1> DEFINE t == touch(m, kind)
<1>4. inbound_table(ms, "tcp", out, n, kind) = {IF k \in {m} THEN t ELSE k : k \in ms}
  BY <1>3 DEF inbound_table
<1> HIDE DEF t
<1>5. inbound_table(ms, "tcp", out, n, kind) = (ms \ {m}) \union {t}
  BY <1>2, <1>4
<1> QED BY <1>2, <1>5 DEF t

\* A packet from outside that belongs to no flow, or is dropped after it was translated.
LEMMA InboundDisturbs ==
    ASSUME StaticApart, NEW fs \in SUBSET Flow, NEW ms, Table(ms), Lasting(fs, ms), Statics,
           NEW pr \in Protocols, NEW peer, NEW out \in Addresses, NEW n \in Nat \ {0},
           NEW kind \in Kinds(pr), NEW to \in inbound(ms, pr, out, n),
           forward_to(pr, n) = {} =>
               ~\E f \in fs : SameFlow(f, pr, peer, to[1], to[2], out) /\ f.external = n
    PROVE  Lasting(Disturb(fs, pr, peer, to[1], to[2], out, n, kind),
                   inbound_table(ms, pr, out, n, kind))
<1> DEFINE gs == Disturb(fs, pr, peer, to[1], to[2], out, n, kind)
           ks == inbound_table(ms, pr, out, n, kind)
<1>0. ms \in SUBSET Mapping
  BY DEF Table
<1>1. gs \in SUBSET Flow /\ Lasting(gs, ms)
  BY DisturbAside
<1>2. CASE forward_to(pr, n) # {}
  BY <1>1, <1>2 DEF inbound_table
<1>3. CASE pr # "tcp"
  <2> HIDE DEF gs
  <2>1. Lasting(gs, ks)
    BY <1>0, <1>1, <1>3, InboundAside
  <2> QED BY <2>1 DEF gs
<1>4. CASE pr = "tcp" /\ forward_to(pr, n) = {}
  <2>1. PICK m \in ms : /\ m.protocol = "tcp" /\ m.outside = out /\ m.external = n
                        /\ to[1] = m.inside /\ to[2] = m.port
                        /\ ks = (ms \ {m}) \union {touch(m, kind)}
    BY <1>4, InboundTcp
  <2>2. \A f \in fs : Stands(m, f) => f.peer # peer
    BY <1>4, <2>1 DEF Stands, SameFlow
  <2>3. Lasting(Disturb(fs, "tcp", peer, m.inside, m.port, m.outside, m.external, kind),
                (ms \ {m}) \union {touch(m, kind)})
    BY <1>0, <1>4, <2>1, <2>2, DisturbLasts
  <2> QED BY <1>4, <2>1, <2>3
<1> QED BY <1>2, <1>3, <1>4

\* A packet from outside.
LEMMA InboundLasts ==
    ASSUME StaticApart, NEW fs \in SUBSET Flow, NEW ms, Table(ms), Lasting(fs, ms), Statics,
           NEW pr \in Protocols, NEW peer \in Peers \union Addresses,
           NEW out \in Addresses, NEW n \in Nat \ {0}, NEW kind \in Kinds(pr),
           NEW to \in inbound(ms, pr, out, n)
    PROVE  Lasting(Answered(fs, pr, peer, to[1], to[2], out, n, kind),
                   inbound_table(ms, pr, out, n, kind))
<1> DEFINE gs == Answered(fs, pr, peer, to[1], to[2], out, n, kind)
           ks == inbound_table(ms, pr, out, n, kind)
<1>0. ms \in SUBSET Mapping /\ Unique(ms)
  BY DEF Table
<1>1. CASE forward_to(pr, n) # {}
  <2>1. PICK i \in forward_to(pr, n) : to = <<forwards[i].inside, forwards[i].inside_port>>
    BY <1>1 DEF inbound, found
  <2>2. /\ i \in DOMAIN forwards /\ forwards[i].protocol = pr /\ forwards[i].outside_port = n
        /\ to[1] = forwards[i].inside /\ to[2] = forwards[i].inside_port
    BY <2>1 DEF forward_to
  <2>3. to[1] \in Hosts /\ to[2] \in Ports
    BY <2>2, ForwardType
  <2>4. gs = Renew(fs, pr, peer, to[1], to[2], out, n, kind) /\ ks = ms
    BY <1>1 DEF Answered, inbound_table
  <2>5. CASE pr = "tcp"
    <3>1. Lasting(Renew(fs, "tcp", peer, forwards[i].inside, forwards[i].inside_port, out,
                        forwards[i].outside_port, kind), ms)
      BY <1>0, <2>2, <2>5, ForwardedLasts
    <3> QED BY <2>2, <2>4, <2>5, <3>1
  <2>6. CASE pr # "tcp"
    <3>1. Lasting(Renew(fs, pr, peer, to[1], to[2], out, n, kind), ms)
      BY <2>3, <2>6, RenewAside
    <3> QED BY <2>4, <3>1
  <2> QED BY <2>5, <2>6
<1>2. CASE forward_to(pr, n) = {}
  <2>1. CASE ~\E f \in fs : SameFlow(f, pr, peer, to[1], to[2], out) /\ f.external = n
    <3>1. gs = Disturb(fs, pr, peer, to[1], to[2], out, n, kind)
      BY <1>2, <2>1 DEF Answered
    <3>2. Lasting(Disturb(fs, pr, peer, to[1], to[2], out, n, kind), ks)
      BY <2>1, InboundDisturbs
    <3> QED BY <3>1, <3>2
  <2>2. CASE \E f \in fs : SameFlow(f, pr, peer, to[1], to[2], out) /\ f.external = n
    <3>1. gs = Renew(fs, pr, peer, to[1], to[2], out, n, kind)
      BY <2>2 DEF Answered
    <3>2. PICK f \in fs : SameFlow(f, pr, peer, to[1], to[2], out)
      BY <2>2
    <3>3. to[1] \in Hosts /\ to[2] \in Ports
      BY <3>2 DEF SameFlow, Flow
    <3>4. CASE pr # "tcp"
      <4>1. gs \in SUBSET Flow /\ Lasting(gs, ms)
        BY <3>1, <3>3, <3>4, RenewAside
      <4> HIDE DEF gs
      <4>2. Lasting(gs, ks)
        BY <1>0, <3>4, <4>1, InboundAside
      <4> QED BY <4>2 DEF gs
    <3>5. CASE pr = "tcp"
      <4>1. PICK m \in ms : /\ m.protocol = "tcp" /\ m.outside = out /\ m.external = n
                            /\ to[1] = m.inside /\ to[2] = m.port
                            /\ ks = (ms \ {m}) \union {touch(m, kind)}
        BY <1>2, <3>5, InboundTcp
      <4>2. m \in Mapping /\ \A k \in ms : (/\ k.protocol = "tcp" /\ k.inside = to[1]
                                            /\ k.port = to[2] /\ k.outside = out) => k = m
        BY <1>0, <4>1 DEF Unique
      <4>3. Lasting(Renew(fs, "tcp", peer, to[1], to[2], out, m.external, kind),
                    (ms \ {m}) \union {touch(m, kind)})
        BY <1>0, <3>3, <3>5, <4>1, <4>2, TranslatedLasts
      <4> QED BY <3>1, <3>5, <4>1, <4>3
    <3> QED BY <3>4, <3>5
  <2> QED BY <2>1, <2>2
<1> QED BY <1>1, <1>2

\* Steps that leave the forwards alone.
LEMMA SameForwardsLast ==
    ASSUME forwards' = forwards, Lasting(flows', mappings')
    PROVE  Lasting(flows, mappings)'
<1>1. \A f \in flows' : StaticFlow(f) => StaticFlow(f)'
  BY DEF StaticFlow
<1>2. \A f \in flows' : Lasts(f, mappings') => Lasts(f, mappings)'
  BY DEF Lasts, Stands
<1> QED BY <1>1, <1>2 DEF Lasting, Kept

\* Egress.
LEMMA EgressLasts ==
    ASSUME StaticApart, LInv, Egress
    PROVE  Lasting(flows, mappings)'
<1> USE DEF LInv
<1>1. PICK pr \in Protocols, h \in Hosts, p \in Ports, peer \in Peers : \E kind \in Kinds(pr) :
        LET r == outbound(expire(mappings), pr, h, p, address, kind)
        IN  /\ mappings' = r.mappings
            /\ next' = r.next
            /\ flows' = IF r.port = 0 THEN flows
                        ELSE Renew(flows, pr, peer, h, p, address, r.port, kind)
            /\ UNCHANGED <<forwards, address>>
  BY DEF Egress
<1>k. PICK kind \in Kinds(pr) :
        LET r == outbound(expire(mappings), pr, h, p, address, kind)
        IN  /\ mappings' = r.mappings
            /\ flows' = IF r.port = 0 THEN flows
                        ELSE Renew(flows, pr, peer, h, p, address, r.port, kind)
            /\ UNCHANGED <<forwards, address>>
  BY <1>1
<1>2. PICK r :
            /\ r = outbound(expire(mappings), pr, h, p, address, kind)
            /\ mappings' = r.mappings
            /\ flows' = IF r.port = 0 THEN flows
                        ELSE Renew(flows, pr, peer, h, p, address, r.port, kind)
            /\ UNCHANGED <<forwards, address>>
  BY <1>k
<1>3. Table(expire(mappings)) /\ Lasting(flows, expire(mappings))
  <2>1. Table(expire(mappings)) /\ flows \in SUBSET Flow /\ mappings \in SUBSET Mapping
    BY ExpireKeeps DEF IInv, Table
  <2> QED BY <2>1, ExpireLasts
<1>4. /\ flows \in SUBSET Flow /\ Statics /\ next \in DynamicPorts
      /\ address \in Addresses \union {NoAddress} /\ peer \in Peers \union Addresses
  BY DEF IInv
<1>5. Lasting(IF r.port = 0 THEN flows ELSE Renew(flows, pr, peer, h, p, address, r.port, kind), r.mappings)
  BY <1>2, <1>3, <1>4, OutboundLasts
<1>6. Lasting(flows', mappings')
  BY <1>2, <1>5
<1> QED BY <1>2, <1>6, SameForwardsLast

\* Ingress.
LEMMA IngressLasts ==
    ASSUME StaticApart, LInv, Ingress
    PROVE  Lasting(flows, mappings)'
<1> USE DEF LInv
<1>1. PICK pr \in Protocols, n \in DynamicPorts \union StaticPorts, peer \in Peers : \E kind \in Kinds(pr) :
        LET ms == expire(mappings)
        IN  /\ address # NoAddress
            /\ mappings' = inbound_table(ms, pr, address, n, kind)
            /\ \E to \in inbound(ms, pr, address, n) :
                   flows' = Answered(flows, pr, peer, to[1], to[2], address, n, kind)
            /\ UNCHANGED <<next, forwards, address>>
  BY DEF Ingress
<1>2. PICK kind \in Kinds(pr), to \in inbound(expire(mappings), pr, address, n) :
            /\ address # NoAddress
            /\ mappings' = inbound_table(expire(mappings), pr, address, n, kind)
            /\ flows' = Answered(flows, pr, peer, to[1], to[2], address, n, kind)
            /\ UNCHANGED <<next, forwards, address>>
  BY <1>1
<1>3. Table(expire(mappings)) /\ Lasting(flows, expire(mappings))
  <2>1. Table(expire(mappings)) /\ flows \in SUBSET Flow /\ mappings \in SUBSET Mapping
    BY ExpireKeeps DEF IInv, Table
  <2> QED BY <2>1, ExpireLasts
<1>4. /\ flows \in SUBSET Flow /\ Statics /\ address \in Addresses
      /\ peer \in Peers \union Addresses /\ n \in Nat \ {0}
  BY <1>2, PortType DEF IInv
<1>5. Lasting(flows', mappings')
  BY <1>2, <1>3, <1>4, InboundLasts
<1> QED BY <1>2, <1>5, SameForwardsLast

\* Hairpin: a packet from outside followed by one from inside.
LEMMA HairpinLasts ==
    ASSUME StaticApart, LInv, Hairpin
    PROVE  Lasting(flows, mappings)'
<1> USE DEF LInv
<1>1. PICK pr \in Hairpins, h \in Hosts, p \in Ports, n \in DynamicPorts \union StaticPorts :
      \E kind \in Kinds(pr) :
        LET ms == expire(mappings)
            r == outbound(inbound_table(ms, pr, address, n, kind), pr, h, p, address, kind)
        IN  /\ address # NoAddress
            /\ mappings' = r.mappings
            /\ next' = r.next
            /\ \E to \in inbound(ms, pr, address, n) :
                   flows' = IF r.port = 0
                            THEN Disturb(flows, pr, NoAddress, to[1], to[2], address, n, kind)
                            ELSE Renew(Answered(flows, pr, address, to[1], to[2], address, n, kind),
                                       pr, address, h, p, address, r.port, kind)
            /\ UNCHANGED <<forwards, address>>
  BY DEF Hairpin
<1>k. PICK kind \in Kinds(pr) :
        LET ms == expire(mappings)
            r == outbound(inbound_table(ms, pr, address, n, kind), pr, h, p, address, kind)
        IN  /\ address # NoAddress
            /\ mappings' = r.mappings
            /\ next' = r.next
            /\ \E to \in inbound(ms, pr, address, n) :
                   flows' = IF r.port = 0
                            THEN Disturb(flows, pr, NoAddress, to[1], to[2], address, n, kind)
                            ELSE Renew(Answered(flows, pr, address, to[1], to[2], address, n, kind),
                                       pr, address, h, p, address, r.port, kind)
            /\ UNCHANGED <<forwards, address>>
  BY <1>1
<1>2. PICK ms, ks, r, to, gs :
            /\ ms = expire(mappings)
            /\ ks = inbound_table(ms, pr, address, n, kind)
            /\ r = outbound(ks, pr, h, p, address, kind)
            /\ address # NoAddress
            /\ mappings' = r.mappings
            /\ to \in inbound(ms, pr, address, n)
            /\ gs = Answered(flows, pr, address, to[1], to[2], address, n, kind)
            /\ flows' = IF r.port = 0
                        THEN Disturb(flows, pr, NoAddress, to[1], to[2], address, n, kind)
                        ELSE Renew(gs, pr, address, h, p, address, r.port, kind)
            /\ UNCHANGED <<forwards, address>>
  BY <1>k
<1>3. pr \in Protocols
  BY NatAssumption
<1>4. /\ Table(ms) /\ ms \in SUBSET Mapping /\ Lasting(flows, ms) /\ Backed(flows, ms)
  <2>1. Table(ms) /\ ms \in SUBSET Mapping /\ flows \in SUBSET Flow /\ mappings \in SUBSET Mapping
    BY <1>2, ExpireKeeps DEF IInv, Table
  <2>2. Backed(flows, ms)
    BY <1>2, BackedExpire DEF IInv
  <2> QED BY <1>2, <2>1, <2>2, ExpireLasts
<1>5. /\ flows \in SUBSET Flow /\ Statics /\ next \in DynamicPorts /\ address \in Addresses
      /\ address \in Peers \union Addresses /\ address \in Addresses \union {NoAddress}
      /\ n \in Nat \ {0}
  BY <1>2, PortType DEF IInv
<1> HIDE DEF LInv
<1>6. Table(ks)
  BY <1>2, <1>3, <1>4, InboundKeeps
<1>7. /\ Disturb(flows, pr, NoAddress, to[1], to[2], address, n, kind) \in SUBSET Flow
      /\ Lasting(Disturb(flows, pr, NoAddress, to[1], to[2], address, n, kind), ks)
  <2>1. ~\E f \in flows : SameFlow(f, pr, NoAddress, to[1], to[2], address) /\ f.external = n
    BY <1>5, NatAssumption DEF SameFlow, Flow
  <2>2. Lasting(Disturb(flows, pr, NoAddress, to[1], to[2], address, n, kind),
                inbound_table(ms, pr, address, n, kind))
    BY <1>2, <1>3, <1>4, <1>5, <2>1, InboundDisturbs
  <2>3. Disturb(flows, pr, NoAddress, to[1], to[2], address, n, kind) \in SUBSET Flow
    BY <1>5, DisturbIs
  <2> QED BY <1>2, <2>2, <2>3
<1>8. gs \in SUBSET Flow /\ Lasting(gs, ks)
  <2>1. PICK a \in Peers \union Addresses, out \in Addresses : a = address /\ out = address
    BY <1>5
  <2>2. to \in inbound(ms, pr, out, n) /\ ks = inbound_table(ms, pr, out, n, kind)
    BY <1>2, <2>1
  <2>3. gs = Answered(flows, pr, a, to[1], to[2], out, n, kind)
    BY <1>2, <2>1
  <2>4. gs \in SUBSET Flow
    BY <1>3, <1>4, <1>5, <2>2, <2>3, InboundBacked, SMTT(60)
  <2>5. Lasting(Answered(flows, pr, a, to[1], to[2], out, n, kind), inbound_table(ms, pr, out, n, kind))
    <3>1. /\ StaticApart /\ flows \in SUBSET Flow /\ Table(ms) /\ Lasting(flows, ms) /\ Statics
          /\ n \in Nat \ {0} /\ to \in inbound(ms, pr, out, n)
      BY <1>4, <1>5, <2>2
    <3> QED BY <1>3, <3>1, InboundLasts
  <2> QED BY <2>2, <2>3, <2>4, <2>5
<1>9. r.port = 0 => Lasting(Disturb(flows, pr, NoAddress, to[1], to[2], address, n, kind), r.mappings)
  <2> DEFINE ds == Disturb(flows, pr, NoAddress, to[1], to[2], address, n, kind)
  <2>1. ds \in SUBSET Flow /\ Lasting(ds, ks)
    BY <1>7
  <2> HIDE DEF ds
  <2>2. Lasting(IF r.port = 0 THEN ds ELSE Renew(ds, pr, address, h, p, address, r.port, kind), r.mappings)
    BY <1>2, <1>3, <1>5, <1>6, <2>1, OutboundLasts
  <2> QED BY <2>2 DEF ds
<1>10. Lasting(IF r.port = 0 THEN gs ELSE Renew(gs, pr, address, h, p, address, r.port, kind), r.mappings)
  BY <1>2, <1>3, <1>5, <1>6, <1>8, OutboundLasts
<1>11. Lasting(flows', mappings')
  <2>1. CASE r.port = 0
    BY <1>2, <1>9, <2>1
  <2>2. CASE r.port # 0
    BY <1>2, <1>10, <2>2
  <2> QED BY <2>1, <2>2
<1> QED BY <1>2, <1>11, SameForwardsLast

\* A new forward: the flows of the forward it replaces end.
LEMMA AddForwardLasts ==
    ASSUME LInv, AddForward
    PROVE  Lasting(flows, mappings)'
<1> USE DEF LInv
<1>1. PICK f \in Configurable :
        /\ forwards' = Append(retained(f), f)
        /\ flows' = {w \in flows : ~(/\ w.protocol = f.protocol
                                     /\ \/ w.external = f.outside_port
                                        \/ w.inside = f.inside /\ w.port = f.inside_port)}
        /\ UNCHANGED <<mappings, next, address>>
  BY DEF AddForward
<1>2. f \in Forwards /\ Statics /\ mappings \in SUBSET Mapping /\ flows' \subseteq flows
  BY <1>1 DEF Forwards, IInv, Table
<1>3. \A j \in DOMAIN forwards :
             \/ forwards[j].protocol = f.protocol /\ forwards[j].outside_port = f.outside_port
             \/ \E i \in DOMAIN forwards' : forwards'[i] = forwards[j]
  BY <1>1, <1>2, AddKeeps
<1>5. \A w \in flows' : StaticFlow(w) => StaticFlow(w)'
  <2> SUFFICES ASSUME NEW w \in flows', StaticFlow(w) PROVE StaticFlow(w)'
    OBVIOUS
  <2>1. PICK j \in DOMAIN forwards :
            /\ forwards[j].protocol = w.protocol /\ forwards[j].outside_port = w.external
            /\ forwards[j].inside = w.inside /\ forwards[j].inside_port = w.port
    BY DEF StaticFlow
  <2>2. PICK i \in DOMAIN forwards' : forwards'[i] = forwards[j]
    BY <1>1, <1>3, <2>1
  <2> QED BY <2>1, <2>2 DEF StaticFlow
<1>6. \A w \in flows' : Lasts(w, mappings) => Lasts(w, mappings)'
  BY <1>1 DEF Lasts, Stands
<1> QED BY <1>1, <1>2, <1>5, <1>6 DEF Lasting, Kept

\* Time takes the same from a flow and from its mapping.
LEMMA TickLasts ==
    ASSUME LInv, Tick
    PROVE  Lasting(flows, mappings)'
<1> USE DEF LInv
<1> DEFINE older(f) == [f EXCEPT !.idle = @ + 1]
           less(m) == [m EXCEPT !.ttl = IF @ = 0 THEN 0 ELSE @ - 1]
<1>1. /\ mappings' = {less(m) : m \in mappings}
      /\ flows' = {older(f) : f \in {g \in flows : g.idle + 1 < timeout(g.protocol, "established")}}
      /\ UNCHANGED <<next, forwards, address>>
  BY DEF Tick
<1>2. mappings \in SUBSET Mapping /\ flows \in SUBSET Flow /\ TCP_ESTABLISHED_TIMEOUT \in Nat
  BY NatAssumption DEF IInv, Table
<1>3. \A f \in flows : /\ f.idle \in Nat /\ older(f).protocol = f.protocol
                       /\ older(f).inside = f.inside /\ older(f).port = f.port
                       /\ older(f).outside = f.outside /\ older(f).external = f.external
                       /\ older(f).phase = f.phase /\ older(f).idle = f.idle + 1
                       /\ older(f).alone = f.alone
  BY <1>2 DEF Flow
<1>4. \A m \in mappings : /\ m.ttl \in Nat /\ less(m).protocol = m.protocol /\ less(m).inside = m.inside
                          /\ less(m).port = m.port /\ less(m).outside = m.outside
                          /\ less(m).external = m.external /\ less(m).phase = m.phase
                          /\ less(m).ttl = IF m.ttl = 0 THEN 0 ELSE m.ttl - 1
  BY <1>2 DEF Mapping
<1>5. timeout("tcp", "established") = TCP_ESTABLISHED_TIMEOUT
  BY DEF timeout
<1> HIDE DEF older, less
<1>6. \A e \in flows' : \E f \in flows : e = older(f) /\ f.idle + 1 < timeout(f.protocol, "established")
  BY <1>1
<1>7. ASSUME NEW f \in flows, f.alone, f.idle + 1 < timeout(f.protocol, "established")
      PROVE  Kept(older(f), mappings')
  <2>1. Kept(f, mappings) /\ f.idle + 1 < TCP_ESTABLISHED_TIMEOUT
    BY <1>5, <1>7 DEF Lasting, Kept
  <2>2. CASE StaticFlow(f)
    BY <1>3, <2>1, <2>2 DEF StaticFlow, Kept
  <2>3. CASE Lasts(f, mappings)
    <3>1. ASSUME f.phase = "established"
          PROVE  \E k \in mappings' : /\ Stands(k, older(f)) /\ k.phase = "established"
                                      /\ k.ttl + older(f).idle >= TCP_ESTABLISHED_TIMEOUT
      <4>1. PICK m \in mappings : /\ Stands(m, f) /\ m.phase = "established"
                                  /\ m.ttl + f.idle >= TCP_ESTABLISHED_TIMEOUT
        BY <2>3, <3>1 DEF Lasts
      <4>2. less(m).ttl = m.ttl - 1
        BY <1>2, <1>3, <1>4, <2>1, <4>1
      <4>3. less(m).ttl + older(f).idle >= TCP_ESTABLISHED_TIMEOUT
        BY <1>2, <1>3, <1>4, <4>1, <4>2
      <4>4. Stands(less(m), older(f)) /\ less(m) \in mappings' /\ less(m).phase = "established"
        BY <1>1, <1>3, <1>4, <4>1 DEF Stands
      <4> QED BY <4>3, <4>4
    <3>2. ASSUME NEW k \in mappings', Stands(k, older(f)), k.phase = "closing"
          PROVE  older(f).phase = "closing"
      <4>1. PICK m \in mappings : k = less(m)
        BY <1>1
      <4>2. Stands(m, f) /\ m.phase = "closing"
        BY <1>3, <1>4, <3>2, <4>1 DEF Stands
      <4> QED BY <1>3, <2>3, <4>2 DEF Lasts
    <3>3. Lasts(older(f), mappings')
      BY <1>3, <3>1, <3>2 DEF Lasts
    <3> QED BY <1>3, <2>1, <3>3 DEF Kept
  <2> QED BY <2>1, <2>2, <2>3 DEF Kept
<1>8. Lasting(flows', mappings')
  BY <1>3, <1>6, <1>7 DEF Lasting
<1> QED BY <1>1, <1>8, SameForwardsLast

\* Every step preserves the invariant.
LEMMA NextLInv ==
    ASSUME StaticApart
    PROVE  LInv /\ [Next]_vars => LInv'
<1> SUFFICES ASSUME LInv, [Next]_vars PROVE Lasting(flows, mappings)'
  BY NextIInv DEF LInv
<1>1. CASE Egress
  BY <1>1, EgressLasts
<1>2. CASE Ingress
  BY <1>2, IngressLasts
<1>3. CASE Hairpin
  BY <1>3, HairpinLasts
<1>4. CASE Poll
  <2>1. flows \in SUBSET Flow /\ mappings \in SUBSET Mapping /\ Lasting(flows, mappings)
    BY DEF LInv, IInv, Table
  <2>2. Lasting(flows, expire(mappings))
    BY <2>1, ExpireLasts
  <2>3. mappings' = expire(mappings) /\ forwards' = forwards /\ flows' = flows
    BY <1>4 DEF Poll
  <2>4. Lasting(flows', mappings')
    BY <2>2, <2>3
  <2> QED BY <2>3, <2>4, SameForwardsLast
<1>5. CASE AddForward
  BY <1>5, AddForwardLasts
<1>6. CASE Renumber \/ UNCHANGED vars
  <2>1. UNCHANGED <<mappings, forwards, flows>>
    BY <1>6 DEF Renumber, vars
  <2>2. Lasting(flows', mappings')
    BY <2>1 DEF LInv
  <2> QED BY <2>1, <2>2, SameForwardsLast
<1>7. CASE Restart
  <2>1. mappings' = {} /\ flows' = {}
    BY <1>7 DEF Restart
  <2> QED BY <2>1 DEF Lasting
<1>8. CASE Tick
  BY <1>8, TickLasts
<1> QED BY <1>1, <1>2, <1>3, <1>4, <1>5, <1>6, <1>7, <1>8 DEF Next

\* An established connection may stay idle for as long as TCP_ESTABLISHED_TIMEOUT and is still
\* answered, whatever else its endpoint exchanges with any number of peers through the mapping
\* they share, until another connection sends SYN, FIN or RST through it (touch).
THEOREM EstablishedIsKept ==
    ASSUME StaticApart
    PROVE  Spec => []EstablishedKept
<1>1. Init => LInv
  BY InitIInv DEF Init, LInv, Lasting
<1>2. ASSUME LInv, NEW f \in flows, f.alone, f.outside = address, f.phase = "established",
             f.idle < TCP_ESTABLISHED_TIMEOUT
      PROVE  inbound(expire(mappings), f.protocol, f.outside, f.external) = {<<f.inside, f.port>>}
  <2>1. /\ Table(expire(mappings)) /\ Lasting(flows, expire(mappings))
    <3>1. /\ Table(expire(mappings)) /\ flows \in SUBSET Flow /\ mappings \in SUBSET Mapping
      BY <1>2, ExpireKeeps DEF LInv, IInv, Table
    <3> QED BY <1>2, <3>1, ExpireLasts DEF LInv
  <2>3. CASE StaticFlow(f)
    <3>1. PICK i \in DOMAIN forwards :
              /\ forwards[i].protocol = f.protocol /\ forwards[i].outside_port = f.external
              /\ forwards[i].inside = f.inside /\ forwards[i].inside_port = f.port
      BY <2>3 DEF StaticFlow
    <3>2. forward_to(f.protocol, f.external) = {i}
      BY <1>2, <3>1 DEF forward_to, LInv, IInv, Statics
    <3>3. found({i}) = {i}
      BY <1>2, <3>1, ForwardType DEF found, LInv, IInv
    <3> QED BY <3>1, <3>2, <3>3 DEF inbound
  <2>4. CASE Lasts(f, expire(mappings))
    <3>1. PICK m \in expire(mappings) : Stands(m, f)
      BY <1>2, <2>4 DEF Lasts
    <3>2. f.external \in DynamicPorts
      BY <2>1, <3>1 DEF Stands, Table, Mapping
    <3>3. forward_to(f.protocol, f.external) = {}
      BY <1>2, <3>2, ForwardType DEF forward_to, LInv, IInv, StaticApart
    <3>4. mapping_to(expire(mappings), f.protocol, f.outside, f.external) = {m}
      BY <2>1, <3>1 DEF mapping_to, Stands, Table, Unique
    <3>5. {<<k.inside, k.port>> : k \in {m}} = {<<m.inside, m.port>>}
      OBVIOUS
    <3> QED BY <3>1, <3>3, <3>4, <3>5 DEF inbound, Stands
  <2> QED BY <1>2, <2>1, <2>3, <2>4 DEF Lasting, Kept
<1>3. LInv => EstablishedKept
  BY <1>2 DEF EstablishedKept
<1> QED BY <1>1, <1>3, NextLInv, PTL DEF Spec
=============================================================================
