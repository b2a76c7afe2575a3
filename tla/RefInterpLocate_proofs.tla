----------------------- MODULE RefInterpLocate_proofs -----------------------
(***************************************************************************)
(* Proofs about the agents of RefInterpLocate, for any ranks, nodes,       *)
(* neighbours, donors and step limit.                                      *)
(***************************************************************************)
EXTENDS RefInterpLocate, TLAPS

(* OneAgentPerNode of given values of the variables. *)
Consistent(c, h, ag) ==
    /\ \A a \in ag : a.mode # "SUGGESTION" =>
          a.node \in Node /\ a.home = Owner[a.node] /\ h[a.node]
    /\ \A a, b \in ag :
          a.mode # "SUGGESTION" /\ b.mode # "SUGGESTION" /\ a.node = b.node
          => a = b
    /\ \A n \in Node : h[n] =>
          c[n] = EMPTY /\ \E a \in ag : a.mode # "SUGGESTION" /\ a.node = n

(* A suggestion names its node by global and is addressed to the owner. *)
Addressed(ag) ==
    \A a \in ag : a.mode = "SUGGESTION" =>
       a.node = EMPTY /\ a.global \in Node /\ a.home = Owner[a.global]

(* ref_interp_push_onto_queue hires only for nodes that nobody works for,  *)
(* so it keeps agent_hired in step with the agents.                        *)
LEMMA PushKeeps ==
    ASSUME NEW c \in [Node -> Rank \cup {EMPTY}],
           NEW h \in [Node -> BOOLEAN],
           NEW rest \in SUBSET Agent,
           NEW node \in Node,
           c[node] # EMPTY,
           Consistent(c, h, rest), Addressed(rest),
           push_onto_queue(node, c, h, rest)
    PROVE  /\ agent_hired' \in [Node -> BOOLEAN]
           /\ agents' \in SUBSET Agent
           /\ Consistent(c, agent_hired', agents')
           /\ Addressed(agents')
           /\ \A a \in agents' \ rest :
                 /\ a.mode \in {"WALKING", "SUGGESTION"}
                 /\ a.mode = "WALKING" => a.at = a.home
<1> DEFINE hire == to_hire(node, c, h)
           sugg == to_suggest(node)
           W == {walker(o, node, c) : o \in hire}
           S == {suggestion(o, node, c) : o \in sugg}
<1>1. /\ hire \subseteq Node /\ sugg \subseteq Node
      /\ \A o \in hire : Owner[o] = Owner[node] /\ c[o] = EMPTY /\ ~h[o]
  BY AroundAssumption DEF to_hire, to_suggest
<1>2. /\ agent_hired' = [n \in Node |-> h[n] \/ n \in hire]
      /\ agents' = rest \cup W \cup S
  BY DEF push_onto_queue
<1>3. /\ Owner[node] \in Rank /\ c[node] \in Rank
      /\ \A o \in Node : Owner[o] \in Rank
  BY OwnerAssumption
<1>4. \A o \in hire :
         /\ walker(o, node, c) \in Agent
         /\ walker(o, node, c).mode = "WALKING"
         /\ walker(o, node, c).node = o
         /\ walker(o, node, c).home = Owner[o]
         /\ walker(o, node, c).at = walker(o, node, c).home
  BY <1>1, <1>3, LimitAssumption DEF walker, Agent, Modes
<1>5. \A o \in sugg :
         /\ suggestion(o, node, c) \in Agent
         /\ suggestion(o, node, c).mode = "SUGGESTION"
         /\ suggestion(o, node, c).node = EMPTY
         /\ suggestion(o, node, c).global = o
         /\ suggestion(o, node, c).home = Owner[o]
  BY <1>1, <1>3, LimitAssumption DEF suggestion, Agent, Modes
<1>6. agent_hired' \in [Node -> BOOLEAN]
  BY <1>2
<1>7. agents' \in SUBSET Agent
  BY <1>2, <1>4, <1>5
<1>8. Addressed(agents')
  BY <1>1, <1>2, <1>4, <1>5 DEF Addressed
<1>9. Consistent(c, agent_hired', agents')
  <2>1. \A a \in agents' : a.mode # "SUGGESTION" =>
           a.node \in Node /\ a.home = Owner[a.node] /\ agent_hired'[a.node]
    <3> SUFFICES ASSUME NEW a \in agents', a.mode # "SUGGESTION"
                 PROVE  a.node \in Node /\ a.home = Owner[a.node]
                        /\ agent_hired'[a.node]
      OBVIOUS
    <3>1. CASE a \in rest
      <4>1. a.node \in Node /\ a.home = Owner[a.node] /\ h[a.node]
        BY <3>1 DEF Consistent
      <4> QED
        BY <4>1, <1>2
    <3>2. CASE a \in W
      <4>1. PICK o \in hire : a = walker(o, node, c)
        BY <3>2
      <4>2. o \in Node /\ agent_hired'[o]
        BY <1>1, <1>2
      <4> QED
        BY <4>1, <4>2, <1>4
    <3>3. CASE a \in S
      BY <3>3, <1>5
    <3> QED
      BY <3>1, <3>2, <3>3, <1>2
  <2>2. \A a, b \in agents' :
           a.mode # "SUGGESTION" /\ b.mode # "SUGGESTION" /\ a.node = b.node
           => a = b
    BY <1>1, <1>2, <1>4, <1>5 DEF Consistent
  <2>3. ASSUME NEW n \in Node, agent_hired'[n]
        PROVE  /\ c[n] = EMPTY
               /\ \E a \in agents' : a.mode # "SUGGESTION" /\ a.node = n
    <3>1. CASE h[n]
      BY <3>1, <1>2 DEF Consistent
    <3>2. CASE n \in hire
      BY <3>2, <1>1, <1>2, <1>4
    <3> QED
      BY <2>3, <3>1, <3>2, <1>2
  <2> QED
    BY <2>1, <2>2, <2>3 DEF Consistent
<1>10. \A a \in agents' \ rest :
          /\ a.mode \in {"WALKING", "SUGGESTION"}
          /\ a.mode = "WALKING" => a.at = a.home
  BY <1>2, <1>4, <1>5
<1> QED
  BY <1>6, <1>7, <1>8, <1>9, <1>10

(* An agent may change as long as it keeps its node and its home. *)
LEMMA ReplaceKeeps ==
    ASSUME NEW c, NEW h, NEW ag \in SUBSET Agent, NEW a \in ag, NEW b \in Agent,
           Consistent(c, h, ag), Addressed(ag),
           a.mode # "SUGGESTION", b.mode # "SUGGESTION",
           b.node = a.node, b.home = a.home
    PROVE  /\ Consistent(c, h, (ag \ {a}) \cup {b})
           /\ Addressed((ag \ {a}) \cup {b})
<1> DEFINE new == (ag \ {a}) \cup {b}
<1>1. \A x \in new : x.mode # "SUGGESTION" =>
         x.node \in Node /\ x.home = Owner[x.node] /\ h[x.node]
  BY DEF Consistent
<1>2. \A x, y \in new :
         x.mode # "SUGGESTION" /\ y.mode # "SUGGESTION" /\ x.node = y.node
         => x = y
  BY DEF Consistent
<1>3. \A n \in Node : h[n] =>
         c[n] = EMPTY /\ \E x \in new : x.mode # "SUGGESTION" /\ x.node = n
  <2> SUFFICES ASSUME NEW n \in Node, h[n]
               PROVE  /\ c[n] = EMPTY
                      /\ \E x \in new : x.mode # "SUGGESTION" /\ x.node = n
    OBVIOUS
  <2>1. PICK x \in ag : x.mode # "SUGGESTION" /\ x.node = n
    BY DEF Consistent
  <2>2. x \in new \/ x = a
    OBVIOUS
  <2> QED
    BY <2>1, <2>2 DEF Consistent
<1>4. Addressed(new)
  BY DEF Addressed
<1> QED
  BY <1>1, <1>2, <1>3, <1>4 DEF Consistent

(* Dismissing the agent of a node and clearing the mark go together. *)
LEMMA DismissKeeps ==
    ASSUME NEW c, NEW h \in [Node -> BOOLEAN], NEW ag \in SUBSET Agent,
           NEW a \in ag, a.mode # "SUGGESTION",
           Consistent(c, h, ag), Addressed(ag)
    PROVE  /\ a.node \in Node /\ c[a.node] = EMPTY
           /\ Consistent(c, [h EXCEPT ![a.node] = FALSE], ag \ {a})
           /\ Addressed(ag \ {a})
<1> DEFINE g == [h EXCEPT ![a.node] = FALSE]
           new == ag \ {a}
<1>1. a.node \in Node /\ h[a.node] /\ c[a.node] = EMPTY
  BY DEF Consistent
<1>2. /\ \A n \in Node : n # a.node => g[n] = h[n]
      /\ ~g[a.node]
  BY <1>1
<1>3. \A x \in new : x.mode # "SUGGESTION" => x.node # a.node
  BY DEF Consistent
<1>4. \A x \in new : x.mode # "SUGGESTION" =>
         x.node \in Node /\ x.home = Owner[x.node] /\ g[x.node]
  BY <1>2, <1>3 DEF Consistent
<1>5. \A x, y \in new :
         x.mode # "SUGGESTION" /\ y.mode # "SUGGESTION" /\ x.node = y.node
         => x = y
  BY DEF Consistent
<1>6. \A n \in Node : g[n] =>
         c[n] = EMPTY /\ \E x \in new : x.mode # "SUGGESTION" /\ x.node = n
  <2> SUFFICES ASSUME NEW n \in Node, g[n]
               PROVE  /\ c[n] = EMPTY
                      /\ \E x \in new : x.mode # "SUGGESTION" /\ x.node = n
    OBVIOUS
  <2>1. n # a.node /\ h[n]
    BY <1>2
  <2>2. PICK x \in ag : x.mode # "SUGGESTION" /\ x.node = n
    BY <2>1 DEF Consistent
  <2>3. x \in new
    BY <2>1, <2>2
  <2> QED
    BY <2>1, <2>2, <2>3 DEF Consistent
<1>7. Addressed(new)
  BY DEF Addressed
<1> HIDE DEF g, new
<1> QED
  BY <1>1, <1>4, <1>5, <1>6, <1>7 DEF Consistent, g, new

(* A node that nobody works for may be located. *)
LEMMA LocateKeeps ==
    ASSUME NEW c \in [Node -> Rank \cup {EMPTY}], NEW h, NEW ag,
           NEW n \in Node, NEW p \in Rank,
           Consistent(c, h, ag), ~h[n]
    PROVE  /\ Consistent([c EXCEPT ![n] = p], h, ag)
           /\ [c EXCEPT ![n] = p] \in [Node -> Rank \cup {EMPTY}]
           /\ [c EXCEPT ![n] = p][n] # EMPTY
<1>1. \A m \in Node : m # n => [c EXCEPT ![n] = p][m] = c[m]
  OBVIOUS
<1>2. [c EXCEPT ![n] = p][n] # EMPTY
  BY EmptyAssumption
<1> QED
  BY <1>1, <1>2 DEF Consistent

(* The search begins without agents and without hired marks. *)
LEMMA InitInd == Init => IndInv
<1> SUFFICES ASSUME Init PROVE IndInv
  OBVIOUS
<1>1. TypeOK
  BY LimitAssumption DEF Init, TypeOK
<1>2. OneAgentPerNode
  BY DEF Init, OneAgentPerNode
<1>3. \A n \in todo : how = "warm" <=> cell[n] # EMPTY
  <2> SUFFICES ASSUME NEW n \in todo
               PROVE  how = "warm" <=> cell[n] # EMPTY
    OBVIOUS
  <2>1. n \in Node
    BY DEF Init
  <2> QED
    BY <2>1 DEF Init
<1>4. ProtocolShape
  BY <1>3 DEF Init, ProtocolShape
<1> QED
  BY <1>1, <1>2, <1>4 DEF IndInv

(***************************************************************************)
(* The steps that hire, locate or dismiss, one lemma each.                 *)
(***************************************************************************)

(* What the steps rely on. *)
LEMMA Parts ==
    ASSUME IndInv
    PROVE  /\ TypeOK /\ ProtocolShape
           /\ Consistent(cell, agent_hired, agents) /\ Addressed(agents)
  BY DEF IndInv, OneAgentPerNode, ProtocolShape, Consistent, Addressed

(* What they have to show. *)
LEMMA Whole ==
    ASSUME TypeOK', ProtocolShape', Consistent(cell', agent_hired', agents')
    PROVE  IndInv'
  BY DEF IndInv, OneAgentPerNode, Consistent

(* Before a start node is located, the walker that was hired for it is     *)
(* dequeued, so that it has neither an agent nor the mark.                 *)
LEMMA DequeueKeeps ==
    ASSUME IndInv, NEW n \in Node, phase = "seed"
    PROVE  /\ unhired(n) \in [Node -> BOOLEAN] /\ ~unhired(n)[n]
           /\ others(n) \in SUBSET Agent /\ others(n) \subseteq agents
           /\ Consistent(cell, unhired(n), others(n))
           /\ Addressed(others(n))
<1>0. /\ TypeOK /\ ProtocolShape
      /\ Consistent(cell, agent_hired, agents) /\ Addressed(agents)
  BY Parts
<1>1. agents \in SUBSET Agent /\ agent_hired \in [Node -> BOOLEAN]
  BY <1>0 DEF TypeOK
<1>2. \A a \in agents : /\ a.mode # "SUGGESTION" => a.at = Owner[a.node]
                        /\ a.mode = "SUGGESTION" => a.node # n
  BY <1>0, EmptyAssumption DEF ProtocolShape, Consistent
<1>3. CASE agent_hired[n]
  <2>1. PICK a \in agents : a.mode # "SUGGESTION" /\ a.node = n
    BY <1>0, <1>3 DEF Consistent
  <2>2. others(n) = agents \ {a}
    BY <1>0, <1>2, <1>3, <2>1 DEF Consistent, others
  <2>3. Consistent(cell, unhired(n), others(n)) /\ Addressed(others(n))
    <3>1. unhired(n) = [agent_hired EXCEPT ![a.node] = FALSE]
      BY <2>1 DEF unhired
    <3>2. /\ Consistent(cell, [agent_hired EXCEPT ![a.node] = FALSE], agents \ {a})
          /\ Addressed(agents \ {a})
      BY <1>0, <1>1, <2>1, DismissKeeps
    <3> QED
      BY <2>2, <3>1, <3>2
  <2> QED
    BY <1>1, <2>2, <2>3 DEF unhired
<1>4. CASE ~agent_hired[n]
  <2>1. unhired(n) = agent_hired /\ others(n) = agents
    BY <1>1, <1>4 DEF unhired, others
  <2> QED
    BY <1>0, <1>1, <1>4, <2>1
<1> QED
  BY <1>3, <1>4

(* A start node that is located, by a match or by the tree. *)
LEMMA StartKeeps ==
    ASSUME IndInv, NEW n \in Node, NEW p \in Rank,
           phase = "seed", how # "warm", n \in todo,
           cell' = [cell EXCEPT ![n] = p],
           push_onto_queue(n, cell', unhired(n), others(n)),
           todo' = todo \ {n},
           phase' = phase, how' = how, tries' = tries, gaveup' = gaveup
    PROVE  IndInv'
<1>0. /\ TypeOK /\ ProtocolShape
      /\ Consistent(cell, agent_hired, agents) /\ Addressed(agents)
  BY Parts
<1>1. /\ unhired(n) \in [Node -> BOOLEAN] /\ ~unhired(n)[n]
      /\ others(n) \in SUBSET Agent /\ others(n) \subseteq agents
      /\ Consistent(cell, unhired(n), others(n))
      /\ Addressed(others(n))
  BY DequeueKeeps
<1>2. cell \in [Node -> Rank \cup {EMPTY}]
  BY <1>0 DEF TypeOK
<1>3. /\ cell' \in [Node -> Rank \cup {EMPTY}] /\ cell'[n] # EMPTY
      /\ Consistent(cell', unhired(n), others(n))
  BY <1>1, <1>2, LocateKeeps
<1>4. /\ agent_hired' \in [Node -> BOOLEAN]
      /\ agents' \in SUBSET Agent
      /\ Consistent(cell', agent_hired', agents') /\ Addressed(agents')
      /\ \A a \in agents' \ others(n) :
            /\ a.mode \in {"WALKING", "SUGGESTION"}
            /\ a.mode = "WALKING" => a.at = a.home
  BY <1>1, <1>3, PushKeeps
<1>5. TypeOK'
  BY <1>0, <1>3, <1>4 DEF TypeOK
<1>6. \A m \in todo' : how' = "warm" <=> cell'[m] # EMPTY
  BY <1>0, <1>2 DEF ProtocolShape, TypeOK
<1>7. ProtocolShape'
  BY <1>0, <1>1, <1>4, <1>6 DEF ProtocolShape, Addressed
<1> QED
  BY <1>4, <1>5, <1>7, Whole

(* A geometry node with a match among the owned ones keeps the invariant:  *)
(* the queued walker is deleted with its mark.                             *)
LEMMA MatchedInd ==
    ASSUME IndInv, NEW n \in Node, Matched(n)
    PROVE  IndInv'
<1>1. PICK p \in Rank : cell' = [cell EXCEPT ![n] = p]
  BY DonorAssumption DEF Matched
<1> QED
  BY <1>1, StartKeeps DEF Matched

(* A sampled node without a candidate only loses its walker. *)
LEMMA SeedTreeInd ==
    ASSUME IndInv, NEW n \in Node, SeedTree(n)
    PROVE  IndInv'
<1>0. /\ TypeOK /\ ProtocolShape
  BY Parts
<1>1. CASE \E p \in Rank : cell' = [cell EXCEPT ![n] = p] /\ gaveup' = gaveup
                           /\ push_onto_queue(n, cell', unhired(n), others(n))
  BY <1>1, StartKeeps DEF SeedTree
<1>2. CASE /\ agent_hired' = unhired(n) /\ agents' = others(n)
           /\ gaveup' = gaveup \cup {n} /\ cell' = cell
  <2>1. /\ phase = "seed" /\ todo' = todo \ {n}
        /\ phase' = phase /\ how' = how /\ tries' = tries
    BY DEF SeedTree
  <2>2. /\ agent_hired' \in [Node -> BOOLEAN]
        /\ agents' \in SUBSET Agent /\ agents' \subseteq agents
        /\ Consistent(cell', agent_hired', agents')
    BY <1>2, <2>1, DequeueKeeps
  <2>3. TypeOK'
    BY <1>0, <1>2, <2>1, <2>2 DEF TypeOK
  <2>4. ProtocolShape'
    BY <1>0, <1>2, <2>1, <2>2 DEF ProtocolShape
  <2> QED
    BY <2>2, <2>3, <2>4, Whole
<1> QED
  BY <1>1, <1>2 DEF SeedTree

(* A warm node has a cell, so its agents start somewhere. *)
LEMMA WarmPushInd ==
    ASSUME IndInv, NEW n \in Node, WarmPush(n)
    PROVE  IndInv'
<1>0. /\ TypeOK /\ ProtocolShape
      /\ Consistent(cell, agent_hired, agents) /\ Addressed(agents)
  BY Parts
<1>1. /\ phase = "seed" /\ how = "warm" /\ n \in todo
      /\ push_onto_queue(n, cell, agent_hired, agents)
      /\ todo' = todo \ {n}
      /\ cell' = cell /\ phase' = phase /\ how' = how /\ tries' = tries
      /\ gaveup' = gaveup
  BY DEF WarmPush
<1>2. /\ cell \in [Node -> Rank \cup {EMPTY}]
      /\ agent_hired \in [Node -> BOOLEAN]
      /\ agents \in SUBSET Agent
      /\ cell[n] # EMPTY
  BY <1>0, <1>1 DEF TypeOK, ProtocolShape
<1>3. /\ agent_hired' \in [Node -> BOOLEAN]
      /\ agents' \in SUBSET Agent
      /\ Consistent(cell, agent_hired', agents') /\ Addressed(agents')
      /\ \A a \in agents' \ agents :
            /\ a.mode \in {"WALKING", "SUGGESTION"}
            /\ a.mode = "WALKING" => a.at = a.home
  BY <1>0, <1>1, <1>2, PushKeeps
<1>4. TypeOK'
  BY <1>0, <1>1, <1>3 DEF TypeOK
<1>5. ProtocolShape'
  BY <1>0, <1>1, <1>3 DEF ProtocolShape, Addressed
<1> QED
  BY <1>1, <1>3, <1>4, <1>5, Whole

(* Where a walk may leave an agent, it keeps its node and its home. *)
LEMMA WalkedKeeps ==
    ASSUME NEW a \in Agent, NEW b \in walked(a)
    PROVE  /\ b \in Agent /\ b.mode # "SUGGESTION"
           /\ b.node = a.node /\ b.home = a.home
<1> USE LimitAssumption
<1>1. a.step \in 0..Limit /\ Limit \in 0..Limit
  BY DEF Agent
<1>2. CASE b = [a EXCEPT !.mode = "TERMINATED", !.step = Limit]
  BY <1>1, <1>2 DEF Agent, Modes
<1>3. ASSUME NEW s \in a.step..(Limit - 1), b \in ended(a, s)
      PROVE  /\ b \in Agent /\ b.mode # "SUGGESTION"
             /\ b.node = a.node /\ b.home = a.home
  <2>1. s \in 0..Limit /\ s + 1 \in 0..Limit
    BY <1>1
  <2>2. CASE b = [a EXCEPT !.mode = "ENCLOSING", !.step = s]
    BY <2>1, <2>2 DEF Agent, Modes
  <2>3. CASE b = stopped(a, s)
    BY <2>1, <2>3 DEF stopped, Agent, Modes
  <2>4. ASSUME NEW q \in Rank, b = left(a, s, q)
        PROVE  /\ b \in Agent /\ b.mode # "SUGGESTION"
               /\ b.node = a.node /\ b.home = a.home
    BY <2>1, <2>4 DEF left, Agent, Modes
  <2> QED
    BY <1>3, <2>2, <2>3, <2>4, Zenon DEF ended
<1>4. \/ b = [a EXCEPT !.mode = "TERMINATED", !.step = Limit]
      \/ \E s \in a.step..(Limit - 1) : b \in ended(a, s)
  BY Zenon DEF walked
<1> QED
  BY <1>2, <1>3, <1>4

(* A walk replaces an agent by one for the same node. *)
LEMMA WalkInd ==
    ASSUME IndInv, NEW r \in Rank, Walk(r)
    PROVE  IndInv'
<1>0. /\ TypeOK /\ ProtocolShape
      /\ Consistent(cell, agent_hired, agents) /\ Addressed(agents)
  BY Parts
<1>a. PICK a \in walkable(r) :
         \E b \in walked(a) : agents' = (agents \ {a}) \cup {b}
  BY DEF Walk
<1>1. PICK b \in walked(a) : agents' = (agents \ {a}) \cup {b}
  BY <1>a
<1>2. /\ phase = "walk" /\ phase' = phase /\ cell' = cell
      /\ agent_hired' = agent_hired /\ how' = how /\ todo' = todo
      /\ tries' = tries /\ gaveup' = gaveup
  BY DEF Walk
<1>3. a \in agents /\ a.mode # "SUGGESTION"
  BY DEF walkable
<1>4. a \in Agent /\ agents \in SUBSET Agent
  BY <1>0, <1>3 DEF TypeOK
<1>5. /\ b \in Agent /\ b.mode # "SUGGESTION"
      /\ b.node = a.node /\ b.home = a.home
  BY <1>4, WalkedKeeps
<1>6. /\ Consistent(cell', agent_hired', agents')
      /\ Addressed(agents') /\ agents' \in SUBSET Agent
  BY <1>0, <1>1, <1>2, <1>3, <1>4, <1>5, ReplaceKeeps
<1>7. TypeOK' /\ ProtocolShape'
  BY <1>0, <1>2, <1>6 DEF TypeOK, ProtocolShape, Addressed
<1> QED
  BY <1>6, <1>7, Whole

(* The migration moves the agents and leaves them as they are.  No two of  *)
(* them for one node become equal or different by it.                      *)
LEMMA MigrateInd ==
    ASSUME IndInv, Migrate
    PROVE  IndInv'
<1>0. /\ TypeOK /\ ProtocolShape
      /\ Consistent(cell, agent_hired, agents) /\ Addressed(agents)
  BY Parts
<1>1. /\ phase = "walk" /\ phase' = "handle" /\ cell' = cell
      /\ agent_hired' = agent_hired /\ how' = how /\ todo' = todo
      /\ tries' = tries /\ gaveup' = gaveup
      /\ agents' = {[a EXCEPT !.at = dest(a)] : a \in agents}
  BY DEF Migrate
<1>2. ASSUME NEW a \in agents
      PROVE  LET b == [a EXCEPT !.at = dest(a)]
             IN  /\ b \in Agent /\ b.mode = a.mode /\ b.node = a.node
                 /\ b.home = a.home /\ b.global = a.global
  <2>1. a \in Agent /\ dest(a) \in Rank
    BY <1>0 DEF TypeOK, Agent, dest
  <2> QED
    BY <2>1 DEF Agent
<1>3. \A b \in agents' : \E a \in agents :
         /\ b = [a EXCEPT !.at = dest(a)]
         /\ b \in Agent /\ b.mode = a.mode /\ b.node = a.node
         /\ b.home = a.home /\ b.global = a.global
  BY ZenonT(60), <1>1, <1>2
<1>4. \A n \in Node : agent_hired'[n] =>
         /\ cell'[n] = EMPTY
         /\ \E b \in agents' : b.mode # "SUGGESTION" /\ b.node = n
  <2> SUFFICES ASSUME NEW n \in Node, agent_hired'[n]
               PROVE  /\ cell'[n] = EMPTY
                      /\ \E b \in agents' : b.mode # "SUGGESTION" /\ b.node = n
    OBVIOUS
  <2>1. PICK a \in agents : a.mode # "SUGGESTION" /\ a.node = n
    BY <1>0, <1>1 DEF Consistent
  <2>2. [a EXCEPT !.at = dest(a)] \in agents'
    BY <1>1
  <2>3. cell'[n] = EMPTY
    BY <1>0, <1>1 DEF Consistent
  <2> QED
    BY <1>2, <2>1, <2>2, <2>3
<1>5. \A x, y \in agents' :
         x.mode # "SUGGESTION" /\ y.mode # "SUGGESTION" /\ x.node = y.node
         => x = y
  BY <1>0, <1>3 DEF Consistent
<1>6. Consistent(cell', agent_hired', agents')
  <2>1. \A b \in agents' : b.mode # "SUGGESTION" =>
           b.node \in Node /\ b.home = Owner[b.node] /\ agent_hired'[b.node]
    <3> SUFFICES ASSUME NEW b \in agents', b.mode # "SUGGESTION"
                 PROVE  /\ b.node \in Node /\ b.home = Owner[b.node]
                        /\ agent_hired'[b.node]
      OBVIOUS
    <3>1. PICK a \in agents : /\ b.mode = a.mode /\ b.node = a.node
                              /\ b.home = a.home
      BY <1>3
    <3> QED
      BY <3>1, <1>0, <1>1 DEF Consistent
  <2> QED
    BY <2>1, <1>4, <1>5 DEF Consistent
<1>7. Addressed(agents') /\ agents' \in SUBSET Agent
  BY <1>0, <1>3 DEF Addressed
<1>8. TypeOK' /\ ProtocolShape'
  BY <1>0, <1>1, <1>7 DEF TypeOK, ProtocolShape, Addressed
<1> QED
  BY <1>6, <1>8, Whole

(* A hop turns an agent into a walker for the same node. *)
LEMMA HopInd ==
    ASSUME IndInv, NEW r \in Rank, Hop(r)
    PROVE  IndInv'
<1>0. /\ TypeOK /\ ProtocolShape
      /\ Consistent(cell, agent_hired, agents) /\ Addressed(agents)
  BY Parts
<1>1. PICK a \in hopped(r) :
         agents' = (agents \ {a}) \cup {[a EXCEPT !.mode = "WALKING"]}
  BY DEF Hop
<1>2. /\ phase = "handle" /\ phase' = phase /\ cell' = cell
      /\ agent_hired' = agent_hired /\ how' = how /\ todo' = todo
      /\ tries' = tries /\ gaveup' = gaveup
  BY DEF Hop
<1> DEFINE b == [a EXCEPT !.mode = "WALKING"]
<1>3. a \in agents /\ a.mode # "SUGGESTION"
  BY DEF hopped
<1>4. a \in Agent /\ agents \in SUBSET Agent
  BY <1>0, <1>3 DEF TypeOK
<1>5. /\ b \in Agent /\ b.mode # "SUGGESTION"
      /\ b.node = a.node /\ b.home = a.home
  BY <1>4 DEF Agent, Modes
<1> HIDE DEF b
<1>6. /\ Consistent(cell', agent_hired', agents')
      /\ Addressed(agents') /\ agents' \in SUBSET Agent
  <2>1. agents' = (agents \ {a}) \cup {b}
    BY <1>1 DEF b
  <2> QED
    BY <2>1, <1>0, <1>2, <1>3, <1>4, <1>5, ReplaceKeeps
<1>7. TypeOK' /\ ProtocolShape'
  BY <1>0, <1>2, <1>6 DEF TypeOK, ProtocolShape, Addressed
<1> QED
  BY <1>6, <1>7, Whole

(* A suggestion that is dropped was no agent of its node; one that is      *)
(* accepted becomes the only one.                                          *)
LEMMA SuggestInd ==
    ASSUME IndInv, NEW r \in Rank, Suggest(r)
    PROVE  IndInv'
<1>0. /\ TypeOK /\ ProtocolShape
      /\ Consistent(cell, agent_hired, agents) /\ Addressed(agents)
  BY Parts
<1>1. PICK a \in suggested(r) :
         \/ /\ agents' = agents \ {a}
            /\ agent_hired' = agent_hired
         \/ /\ cell[a.global] = EMPTY /\ ~agent_hired[a.global]
            /\ agents' = (agents \ {a}) \cup
                  {[a EXCEPT !.mode = "WALKING", !.node = a.global,
                             !.global = EMPTY]}
            /\ agent_hired' = [agent_hired EXCEPT ![a.global] = TRUE]
  BY DEF Suggest
<1>2. /\ phase = "handle" /\ phase' = phase /\ cell' = cell
      /\ how' = how /\ todo' = todo /\ tries' = tries /\ gaveup' = gaveup
  BY DEF Suggest
<1>3. a \in agents /\ a.mode = "SUGGESTION"
  BY DEF suggested
<1>4. /\ a \in Agent /\ agents \in SUBSET Agent
      /\ agent_hired \in [Node -> BOOLEAN]
      /\ a.global \in Node /\ a.home = Owner[a.global]
  BY <1>0, <1>3 DEF TypeOK, Addressed
<1>5. CASE agents' = agents \ {a} /\ agent_hired' = agent_hired
  <2>1. Consistent(cell', agent_hired', agents')
    BY <1>0, <1>2, <1>3, <1>5 DEF Consistent
  <2>2. TypeOK' /\ ProtocolShape'
    BY <1>0, <1>2, <1>5 DEF TypeOK, ProtocolShape
  <2> QED
    BY <2>1, <2>2, Whole
<1>6. CASE /\ cell[a.global] = EMPTY /\ ~agent_hired[a.global]
           /\ agents' = (agents \ {a}) \cup
                 {[a EXCEPT !.mode = "WALKING", !.node = a.global,
                            !.global = EMPTY]}
           /\ agent_hired' = [agent_hired EXCEPT ![a.global] = TRUE]
  <2> DEFINE n == a.global
             b == [a EXCEPT !.mode = "WALKING", !.node = a.global,
                            !.global = EMPTY]
  <2>1. /\ b \in Agent /\ b.mode = "WALKING" /\ b.node = n
        /\ b.home = Owner[n]
    BY <1>4 DEF Agent, Modes
  <2>2. agents' = (agents \ {a}) \cup {b}
    BY <1>6
  <2>3. /\ agent_hired' \in [Node -> BOOLEAN] /\ agent_hired'[n]
        /\ \A m \in Node : m # n => agent_hired'[m] = agent_hired[m]
    BY <1>4, <1>6
  <2> HIDE DEF b
  <2>4. \A x \in agents : x.mode # "SUGGESTION" => x.node # n
    BY <1>0, <1>6 DEF Consistent
  <2>5. \A x \in agents' : x.mode # "SUGGESTION" =>
           x.node \in Node /\ x.home = Owner[x.node] /\ agent_hired'[x.node]
    <3> SUFFICES ASSUME NEW x \in agents', x.mode # "SUGGESTION"
                 PROVE  /\ x.node \in Node /\ x.home = Owner[x.node]
                        /\ agent_hired'[x.node]
      OBVIOUS
    <3>1. CASE x = b
      BY <3>1, <1>4, <2>1, <2>3
    <3>2. CASE x \in agents
      <4>1. /\ x.node \in Node /\ x.home = Owner[x.node]
            /\ agent_hired[x.node] /\ x.node # n
        BY <3>2, <1>0, <2>4 DEF Consistent
      <4> QED
        BY <4>1, <2>3
    <3> QED
      BY <3>1, <3>2, <2>2
  <2>6. \A x, y \in agents' :
           x.mode # "SUGGESTION" /\ y.mode # "SUGGESTION" /\ x.node = y.node
           => x = y
    BY <1>0, <2>1, <2>2, <2>4 DEF Consistent
  <2>7. \A m \in Node : agent_hired'[m] =>
           /\ cell'[m] = EMPTY
           /\ \E x \in agents' : x.mode # "SUGGESTION" /\ x.node = m
    <3> SUFFICES ASSUME NEW m \in Node, agent_hired'[m]
                 PROVE  /\ cell'[m] = EMPTY
                        /\ \E x \in agents' : x.mode # "SUGGESTION" /\ x.node = m
      OBVIOUS
    <3>1. CASE m = n
      BY <3>1, <1>2, <1>6, <2>1, <2>2
    <3>2. CASE m # n
      <4>1. agent_hired[m]
        BY <3>2, <2>3
      <4>2. PICK x \in agents : x.mode # "SUGGESTION" /\ x.node = m
        BY <4>1, <1>0 DEF Consistent
      <4>3. x \in agents'
        BY <4>2, <1>3, <2>2
      <4> QED
        BY <4>1, <4>2, <4>3, <1>0, <1>2 DEF Consistent
    <3> QED
      BY <3>1, <3>2
  <2>8. Consistent(cell', agent_hired', agents')
    BY <2>5, <2>6, <2>7 DEF Consistent
  <2>9. TypeOK' /\ ProtocolShape'
    <3>1. agents' \in SUBSET Agent
      BY <1>4, <2>1, <2>2
    <3>2. Addressed(agents')
      BY <1>0, <2>1, <2>2 DEF Addressed
    <3> QED
      BY <3>1, <3>2, <2>3, <1>0, <1>2 DEF TypeOK, ProtocolShape, Addressed
  <2> QED
    BY <2>8, <2>9, Whole
<1> QED
  BY <1>1, <1>5, <1>6

(* The node of an agent that came home without a cell has no agent left,   *)
(* and the mark is cleared with it.                                        *)
LEMMA DismissInd ==
    ASSUME IndInv, NEW r \in Rank, Dismiss(r)
    PROVE  IndInv'
<1>0. /\ TypeOK /\ ProtocolShape
      /\ Consistent(cell, agent_hired, agents) /\ Addressed(agents)
  BY Parts
<1>1. PICK a \in lost(r) :
         /\ agents' = agents \ {a}
         /\ agent_hired' = [agent_hired EXCEPT ![a.node] = FALSE]
         /\ gaveup' = gaveup \cup {a.node}
  BY DEF Dismiss
<1>2. /\ phase = "handle" /\ phase' = phase /\ cell' = cell
      /\ how' = how /\ todo' = todo /\ tries' = tries
  BY DEF Dismiss
<1>3. /\ a \in agents /\ a.mode # "SUGGESTION"
      /\ agents \in SUBSET Agent /\ agent_hired \in [Node -> BOOLEAN]
  BY <1>0 DEF lost, TypeOK
<1>4. /\ a.node \in Node
      /\ Consistent(cell', agent_hired', agents') /\ Addressed(agents')
  BY <1>0, <1>1, <1>2, <1>3, DismissKeeps
<1>5. TypeOK' /\ ProtocolShape'
  BY <1>0, <1>1, <1>2, <1>3, <1>4 DEF TypeOK, ProtocolShape, Addressed
<1> QED
  BY <1>4, <1>5, Whole

(* An agent that came home with a cell is dismissed, its node is located,  *)
(* and its neighbours are pushed.                                          *)
LEMMA EncloseInd ==
    ASSUME IndInv, NEW r \in Rank, Enclose(r)
    PROVE  IndInv'
<1>0. /\ TypeOK /\ ProtocolShape
      /\ Consistent(cell, agent_hired, agents) /\ Addressed(agents)
  BY Parts
<1>1. PICK a \in enclosing(r) :
         /\ cell' = [cell EXCEPT ![a.node] = a.part]
         /\ push_onto_queue(a.node, cell',
                            [agent_hired EXCEPT ![a.node] = FALSE],
                            agents \ {a})
  BY DEF Enclose
<1>2. /\ phase = "handle" /\ phase' = phase
      /\ how' = how /\ todo' = todo /\ tries' = tries /\ gaveup' = gaveup
  BY DEF Enclose
<1> DEFINE h == [agent_hired EXCEPT ![a.node] = FALSE]
           rest == agents \ {a}
<1>3. /\ a \in agents /\ a.mode # "SUGGESTION" /\ a.part \in Rank
      /\ agents \in SUBSET Agent /\ agent_hired \in [Node -> BOOLEAN]
      /\ cell \in [Node -> Rank \cup {EMPTY}]
  BY <1>0 DEF enclosing, TypeOK, Agent
<1>4. /\ a.node \in Node /\ h \in [Node -> BOOLEAN]
      /\ Consistent(cell, h, rest) /\ Addressed(rest)
  BY <1>0, <1>3, DismissKeeps
<1>5. ~h[a.node] /\ rest \in SUBSET Agent
  BY <1>3, <1>4
<1> HIDE DEF h, rest
<1>6. /\ cell' \in [Node -> Rank \cup {EMPTY}] /\ cell'[a.node] # EMPTY
      /\ Consistent(cell', h, rest)
  BY <1>1, <1>3, <1>4, <1>5, LocateKeeps
<1>7. /\ agent_hired' \in [Node -> BOOLEAN]
      /\ agents' \in SUBSET Agent
      /\ Consistent(cell', agent_hired', agents') /\ Addressed(agents')
  <2>1. push_onto_queue(a.node, cell', h, rest)
    BY <1>1 DEF h, rest
  <2> QED
    BY <2>1, <1>4, <1>5, <1>6, PushKeeps
<1>8. TypeOK' /\ ProtocolShape'
  BY <1>0, <1>2, <1>6, <1>7 DEF TypeOK, ProtocolShape, Addressed
<1> QED
  BY <1>7, <1>8, Whole

(* The tree searches meet neither an agent nor a mark. *)
LEMMA BestCellKeeps ==
    ASSUME IndInv, phase \in {"tree", "near"},
           NEW best \in [missing -> Rank \cup {EMPTY}], best_cell(best),
           how' = how, todo' = todo, gaveup' = gaveup,
           tries' \in 0..MaxTries,
           phase' \in {"tree", "near", "done", "failed"},
           phase' = "tree" => tries' < MaxTries
    PROVE  IndInv'
<1>0. /\ TypeOK /\ ProtocolShape
      /\ Consistent(cell, agent_hired, agents)
  BY Parts
<1>1. agents = {} /\ \A n \in Node : ~agent_hired[n]
  BY <1>0 DEF ProtocolShape, Consistent
<1>2. agents' = {}
  BY <1>1 DEF best_cell
<1>3. agent_hired' \in [Node -> BOOLEAN] /\ \A n \in Node : ~agent_hired'[n]
  BY <1>1 DEF best_cell
<1>4. cell' \in [Node -> Rank \cup {EMPTY}]
  BY <1>0 DEF TypeOK, best_cell
<1>5. TypeOK'
  BY <1>0, <1>2, <1>3, <1>4 DEF TypeOK
<1>6. ProtocolShape'
  BY <1>2 DEF ProtocolShape
<1>7. Consistent(cell', agent_hired', agents')
  BY <1>2, <1>3 DEF Consistent
<1> QED
  BY <1>5, <1>6, <1>7, Whole

(* The exhaustive tree search writes cells of nodes no agent works for. *)
LEMMA TreeInd ==
    ASSUME IndInv, Tree
    PROVE  IndInv'
<1> USE LimitAssumption
<1>0. TypeOK /\ ProtocolShape
  BY Parts
<1>1. PICK best \in [missing -> Rank \cup {EMPTY}] :
         /\ best_cell(best)
         /\ \/ phase' = "done"
            \/ phase' = CASE how = "nearest" -> "near"
                          [] how # "nearest" /\ tries + 1 < MaxTries -> "tree"
                          [] OTHER -> "failed"
  BY DEF Tree
<1>2. /\ phase = "tree" /\ tries' = tries + 1
      /\ how' = how /\ todo' = todo /\ gaveup' = gaveup
  BY DEF Tree
<1>3. tries' \in 0..MaxTries
  BY <1>0, <1>2 DEF ProtocolShape, TypeOK
<1>4. /\ phase' \in {"tree", "near", "done", "failed"}
      /\ phase' = "tree" => tries + 1 < MaxTries
  BY <1>1
<1> QED
  BY <1>1, <1>2, <1>3, <1>4, BestCellKeeps

(* So does the nearest-node fallback. *)
LEMMA NearestInd ==
    ASSUME IndInv, Nearest
    PROVE  IndInv'
<1>0. TypeOK
  BY Parts
<1>1. PICK best \in [missing -> Rank \cup {EMPTY}] :
         best_cell(best) /\ phase' \in {"done", "failed"}
  BY DEF Nearest
<1>2. /\ phase = "near" /\ tries' = tries
      /\ how' = how /\ todo' = todo /\ gaveup' = gaveup
  BY DEF Nearest
<1>3. tries' \in 0..MaxTries
  BY <1>0, <1>2 DEF TypeOK
<1> QED
  BY <1>1, <1>2, <1>3, BestCellKeeps

(* The collectives that only change the phase, and stuttering. *)
LEMMA PhaseInd ==
    ASSUME IndInv, Seeded \/ SumAgents \/ Handled \/ UNCHANGED vars
    PROVE  IndInv'
<1> USE LimitAssumption
<1>0. /\ TypeOK /\ ProtocolShape
      /\ Consistent(cell, agent_hired, agents)
  BY Parts
<1>1. CASE UNCHANGED vars
  BY <1>1 DEF IndInv, TypeOK, OneAgentPerNode, ProtocolShape, vars
<1>2. CASE Seeded \/ SumAgents \/ Handled
  <2>1. /\ cell' = cell /\ agent_hired' = agent_hired /\ agents' = agents
        /\ how' = how /\ todo' = todo /\ tries' = tries /\ gaveup' = gaveup
        /\ phase \in {"seed", "sum", "handle"}
        /\ \/ phase' \in {"sum", "walk"}
           \/ phase' = "tree" /\ agents = {}
    BY <1>2 DEF Seeded, SumAgents, Handled
  <2>2. TypeOK'
    BY <1>0, <2>1 DEF TypeOK
  <2>3. ProtocolShape'
    BY <1>0, <2>1 DEF ProtocolShape
  <2>4. Consistent(cell', agent_hired', agents')
    BY <1>0, <2>1
  <2> QED
    BY <2>2, <2>3, <2>4, Whole
<1> QED
  BY <1>1, <1>2

(***************************************************************************)
(* IndInv is inductive.                                                    *)
(***************************************************************************)
LEMMA NextInd == IndInv /\ [Next]_vars => IndInv'
<1> SUFFICES ASSUME IndInv, [Next]_vars PROVE IndInv'
  OBVIOUS
<1>1. CASE \E n \in Node : Matched(n) \/ SeedTree(n) \/ WarmPush(n)
  BY <1>1, MatchedInd, SeedTreeInd, WarmPushInd
<1>2. CASE \E r \in Rank : RankStep(r)
  BY <1>2, WalkInd, HopInd, SuggestInd, DismissInd, EncloseInd DEF RankStep
<1>3. CASE Collective
  BY <1>3, PhaseInd, MigrateInd, TreeInd, NearestInd DEF Collective
<1>4. CASE Returned \/ UNCHANGED vars
  BY <1>4, PhaseInd DEF Returned
<1> QED
  BY <1>1, <1>2, <1>3, <1>4 DEF Next

(* IndInv holds in every reachable state of the search. *)
THEOREM Inductive == Spec => []IndInv
  BY InitInd, NextInd, PTL DEF Spec

(* ref_interp.c keeps its arrays and agents well typed; in particular no   *)
(* agent is counted past the step limit and no try past the last one.      *)
THEOREM TypeCorrect == Spec => []TypeOK
  BY Inductive, PTL DEF IndInv

(* agent_hired tells the truth about the agents of all ranks. *)
THEOREM OneAgent == Spec => []OneAgentPerNode
  BY Inductive, PTL DEF IndInv

(* The assertions of the loops that take back an agent never fire. *)
THEOREM HandlersNeverAssert == Spec => []HandlerAsserts
<1>1. IndInv => HandlerAsserts
  BY DEF IndInv, OneAgentPerNode, HandlerAsserts, lost, enclosing
<1> QED
  BY <1>1, Inductive, PTL

(* Once the sweeps are over no node is left marked as hired. *)
THEOREM EverybodyDismissed == Spec => []AllDismissed
<1>1. IndInv => AllDismissed
  BY DEF IndInv, OneAgentPerNode, ProtocolShape, AllDismissed
<1> QED
  BY <1>1, Inductive, PTL

(* A step keeps the cells that are recorded. *)
LEMMA CellsKept ==
    IndInv /\ [Next]_vars =>
       \A n \in Node : cell[n] # EMPTY => cell'[n] = cell[n]
<1> SUFFICES ASSUME IndInv, [Next]_vars
             PROVE  \A n \in Node : cell[n] # EMPTY => cell'[n] = cell[n]
  OBVIOUS
<1>1. CASE UNCHANGED vars
  BY <1>1 DEF vars
<1>2. CASE Next
  <2>0. /\ TypeOK /\ ProtocolShape
        /\ Consistent(cell, agent_hired, agents)
    BY Parts
  <2>1. ASSUME NEW m \in Node, Matched(m) \/ SeedTree(m)
        PROVE  \A n \in Node : cell[n] # EMPTY => cell'[n] = cell[n]
    <3>1. cell[m] = EMPTY
      BY <2>0, <2>1 DEF Matched, SeedTree, ProtocolShape
    <3>2. cell' = cell \/ \E p : cell' = [cell EXCEPT ![m] = p]
      BY <2>1 DEF Matched, SeedTree
    <3> QED
      BY <2>0, <3>1, <3>2 DEF TypeOK
  <2>2. ASSUME NEW r \in Rank, Enclose(r)
        PROVE  \A n \in Node : cell[n] # EMPTY => cell'[n] = cell[n]
    <3>1. PICK a \in enclosing(r) : cell' = [cell EXCEPT ![a.node] = a.part]
      BY <2>2 DEF Enclose
    <3>2. a.node \in Node /\ cell[a.node] = EMPTY
      BY <2>0 DEF enclosing, Consistent
    <3> QED
      BY <2>0, <3>1, <3>2 DEF TypeOK
  <2>3. CASE Tree \/ Nearest
    BY <2>3 DEF Tree, Nearest, best_cell, missing
  <2>4. ASSUME NEW m \in Node, WarmPush(m)
        PROVE  cell' = cell
    BY <2>4 DEF WarmPush
  <2>5. ASSUME NEW r \in Rank,
               Walk(r) \/ Hop(r) \/ Suggest(r) \/ Dismiss(r)
        PROVE  cell' = cell
    BY <2>5 DEF Walk, Hop, Suggest, Dismiss
  <2>6. CASE Seeded \/ SumAgents \/ Migrate \/ Handled \/ Returned
    BY <2>6 DEF Seeded, SumAgents, Migrate, Handled, Returned, vars
  <2> QED
    BY <1>2, <2>1, <2>2, <2>3, <2>4, <2>5, <2>6 DEF Next, RankStep, Collective
<1> QED
  BY <1>1, <1>2

(* No late agent, match or tree search overwrites the cell of a node. *)
THEOREM CellsWrittenOnce == Spec => WriteOnce
<1>1. IndInv /\ [Next]_vars =>
         [\A n \in Node : cell[n] # EMPTY => cell'[n] = cell[n]]_vars
  BY CellsKept
<1> QED
  BY <1>1, Inductive, PTL DEF Spec, WriteOnce

(***************************************************************************)
(* The sweeps.  What ref_interp_push_onto_queue adds: walkers and          *)
(* suggestions with all their steps, which start from the cell of the      *)
(* node, each suggestion addressed to another rank, and something for      *)
(* every neighbour of the node.                                            *)
(***************************************************************************)
Fresh(a, node, c) ==
    /\ a.mode \in {"WALKING", "SUGGESTION"}
    /\ a.step < Limit
    /\ a.mode = "SUGGESTION" => a.home # a.at
    /\ a.global # GUESS
    /\ a.from = node /\ a.part = c[node]

LEMMA PushAdds ==
    ASSUME NEW c, NEW h \in [Node -> BOOLEAN], NEW rest, NEW node \in Node,
           push_onto_queue(node, c, h, rest)
    PROVE  /\ rest \subseteq agents'
           /\ \A a \in agents' \ rest : Fresh(a, node, c)
           /\ \A n \in Node : h[n] => agent_hired'[n]
           /\ \A n \in Around[node] :
                 \/ c[n] # EMPTY
                 \/ agent_hired'[n]
                 \/ \E a \in agents' : a.mode = "SUGGESTION" /\ a.global = n
<1> DEFINE hire == to_hire(node, c, h)
           sugg == to_suggest(node)
           W == {walker(o, node, c) : o \in hire}
           S == {suggestion(o, node, c) : o \in sugg}
<1>1. /\ agent_hired' = [n \in Node |-> h[n] \/ n \in hire]
      /\ agents' = rest \cup W \cup S
  BY DEF push_onto_queue
<1>2. \A o \in hire : Fresh(walker(o, node, c), node, c)
  BY LimitAssumption, GuessAssumption DEF walker, Fresh
<1>3. \A o \in sugg : /\ suggestion(o, node, c).mode = "SUGGESTION"
                      /\ suggestion(o, node, c).global = o
                      /\ Fresh(suggestion(o, node, c), node, c)
  BY LimitAssumption, GuessAssumption, AroundAssumption
  DEF suggestion, to_suggest, Fresh
<1>4. ASSUME NEW n \in Around[node]
      PROVE  \/ c[n] # EMPTY
             \/ agent_hired'[n]
             \/ \E a \in agents' : a.mode = "SUGGESTION" /\ a.global = n
  <2>1. n \in Node
    BY AroundAssumption
  <2>2. CASE Owner[n] # Owner[node]
    <3>1. n \in sugg
      BY <2>2 DEF to_suggest
    <3> QED
      BY <3>1, <1>1, <1>3
  <2>3. CASE Owner[n] = Owner[node]
    <3>1. c[n] # EMPTY \/ h[n] \/ n \in hire
      BY <2>3 DEF to_hire
    <3> QED
      BY <3>1, <2>1, <1>1
  <2> QED
    BY <2>2, <2>3
<1> QED
  BY <1>1, <1>2, <1>3, <1>4

(* A start node that is processed: what it dequeues and what it pushes.    *)
LEMMA SeedStep ==
    ASSUME IndInv, NEW n \in Node, Matched(n) \/ SeedTree(n) \/ WarmPush(n)
    PROVE  /\ phase = "seed" /\ phase' = "seed" /\ how' = how /\ tries' = tries
           /\ n \in todo /\ todo' = todo \ {n}
           /\ \A a \in agents' \ agents :
                 /\ a.mode \in {"WALKING", "SUGGESTION"}
                 /\ a.step < Limit
                 /\ a.mode = "SUGGESTION" => a.home # a.at
                 /\ a.global # GUESS
                 /\ cell'[a.from] # EMPTY /\ a.part = cell'[a.from]
           /\ \A a \in agents : a.mode = "SUGGESTION" => a \in agents'
           /\ \A m \in Node \ {n} : agent_hired[m] => agent_hired'[m]
           /\ gaveup \subseteq gaveup'
           /\ cell'[n] # EMPTY \/ n \in gaveup'
           /\ cell'[n] # EMPTY => \A m \in Around[n] :
                 \/ cell'[m] # EMPTY
                 \/ agent_hired'[m]
                 \/ \E a \in agents' : a.mode = "SUGGESTION" /\ a.global = m
           /\ \A m \in Node \ {n} : cell'[m] = cell[m]
<1>0. /\ TypeOK /\ ProtocolShape
      /\ Consistent(cell, agent_hired, agents) /\ Addressed(agents)
  BY Parts
<1>1. /\ phase = "seed" /\ phase' = "seed" /\ how' = how /\ tries' = tries
      /\ n \in todo /\ todo' = todo \ {n}
  BY DEF Matched, SeedTree, WarmPush
<1>2. /\ unhired(n) \in [Node -> BOOLEAN] /\ ~unhired(n)[n]
      /\ others(n) \subseteq agents
  BY <1>1, DequeueKeeps
<1>3. \A a \in agents : a.mode = "SUGGESTION" => a \in others(n)
  BY <1>0, EmptyAssumption DEF others, Addressed
<1>4. \A m \in Node \ {n} : unhired(n)[m] = agent_hired[m]
  BY <1>0 DEF unhired, TypeOK
<1>5. CASE \E p \in Rank : /\ cell' = [cell EXCEPT ![n] = p] /\ gaveup' = gaveup
                           /\ push_onto_queue(n, cell', unhired(n), others(n))
  <2>1. cell'[n] # EMPTY /\ \A m \in Node \ {n} : cell'[m] = cell[m]
    BY <1>0, <1>5, EmptyAssumption DEF TypeOK
  <2>2. push_onto_queue(n, cell', unhired(n), others(n)) /\ gaveup' = gaveup
    BY <1>5
  <2>3. \A a \in agents' \ others(n) : Fresh(a, n, cell')
    BY <1>2, <2>2, PushAdds
  <2> QED
    BY <1>1, <1>2, <1>3, <1>4, <2>1, <2>2, <2>3, PushAdds DEF Fresh
<1>6. CASE /\ agent_hired' = unhired(n) /\ agents' = others(n)
           /\ gaveup' = gaveup \cup {n} /\ cell' = cell /\ how # "warm"
  <2>1. cell[n] = EMPTY
    BY <1>0, <1>1, <1>6 DEF ProtocolShape
  <2> QED
    BY <1>1, <1>2, <1>3, <1>4, <1>6, <2>1
<1>7. CASE WarmPush(n)
  <2>1. /\ push_onto_queue(n, cell', agent_hired, agents)
        /\ gaveup' = gaveup /\ cell' = cell /\ cell[n] # EMPTY
        /\ agent_hired \in [Node -> BOOLEAN]
    BY <1>0, <1>1, <1>7 DEF WarmPush, ProtocolShape, TypeOK
  <2>2. \A a \in agents' \ agents : Fresh(a, n, cell')
    BY <2>1, PushAdds
  <2> QED
    BY <1>1, <2>1, <2>2, PushAdds DEF Fresh
<1>8. CASE Matched(n)
  <2>1. \E p \in Rank : cell' = [cell EXCEPT ![n] = p]
    BY <1>8, DonorAssumption DEF Matched
  <2> QED
    BY <1>5, <1>8, <2>1 DEF Matched
<1>9. CASE SeedTree(n)
  BY <1>5, <1>6, <1>9 DEF SeedTree
<1> QED
  BY <1>7, <1>8, <1>9

(* The steps within a sweep change one agent; the new ones are those that  *)
(* ref_interp_push_onto_queue adds.                                        *)
LEMMA EncloseStep ==
    ASSUME IndInv, NEW r \in Rank, Enclose(r)
    PROVE  \E a \in enclosing(r) :
              /\ a \in agents /\ a.mode = "ENCLOSING" /\ a.node \in Node
              /\ a.part \in Rank
              /\ cell' = [cell EXCEPT ![a.node] = a.part]
              /\ agents \ {a} \subseteq agents'
              /\ a.node \in Node => \A m \in Node \ {a.node} :
                    agent_hired[m] => agent_hired'[m]
              /\ \A b \in agents' \ agents :
                    /\ b.mode \in {"WALKING", "SUGGESTION"}
                    /\ b.step < Limit
                    /\ b.mode = "SUGGESTION" => b.home # b.at
                    /\ b.global # GUESS
                    /\ cell'[b.from] # EMPTY /\ b.part = cell'[b.from]
              /\ \A m \in Around[a.node] :
                    \/ cell'[m] # EMPTY
                    \/ agent_hired'[m]
                    \/ \E b \in agents' : b.mode = "SUGGESTION" /\ b.global = m
              /\ a \in agents' => a.mode \in {"WALKING", "SUGGESTION"}
<1>0. /\ TypeOK /\ Consistent(cell, agent_hired, agents)
  BY Parts
<1>1. PICK a \in enclosing(r) :
         /\ cell' = [cell EXCEPT ![a.node] = a.part]
         /\ push_onto_queue(a.node, cell',
                            [agent_hired EXCEPT ![a.node] = FALSE],
                            agents \ {a})
  BY DEF Enclose
<1> DEFINE h == [agent_hired EXCEPT ![a.node] = FALSE]
<1>2. /\ a \in agents /\ a.mode = "ENCLOSING" /\ a.node \in Node
      /\ a.part \in Rank
  BY <1>0 DEF enclosing, Consistent, TypeOK, Agent
<1>3. /\ h \in [Node -> BOOLEAN]
      /\ \A m \in Node \ {a.node} : h[m] = agent_hired[m]
  BY <1>0, <1>2 DEF TypeOK
<1> HIDE DEF h
<1>4. /\ agents \ {a} \subseteq agents'
      /\ \A b \in agents' \ (agents \ {a}) : Fresh(b, a.node, cell')
      /\ \A n \in Node : h[n] => agent_hired'[n]
      /\ \A n \in Around[a.node] :
            \/ cell'[n] # EMPTY
            \/ agent_hired'[n]
            \/ \E b \in agents' : b.mode = "SUGGESTION" /\ b.global = n
  <2>1. push_onto_queue(a.node, cell', h, agents \ {a})
    BY <1>1 DEF h
  <2> QED
    BY ZenonT(60), <2>1, <1>2, <1>3, PushAdds
<1>5. cell'[a.node] # EMPTY
  BY <1>0, <1>1, <1>2, EmptyAssumption DEF TypeOK
<1>6. \A b \in agents' \ (agents \ {a}) :
         /\ b.mode \in {"WALKING", "SUGGESTION"}
         /\ b.step < Limit
         /\ b.mode = "SUGGESTION" => b.home # b.at
         /\ b.global # GUESS
         /\ cell'[b.from] # EMPTY /\ b.part = cell'[b.from]
  BY <1>4, <1>5 DEF Fresh
<1> QED
  BY <1>1, <1>2, <1>3, <1>4, <1>6

(* What a walk makes of an agent. *)
LEMMA WalkStep ==
    ASSUME IndInv, NEW r \in Rank, Walk(r)
    PROVE  \E a \in agents, b \in Agent :
              /\ a \in Agent /\ a.mode = "WALKING"
              /\ agents' = (agents \ {a}) \cup {b}
              /\ b.mode \in {"ENCLOSING", "AT_BOUNDARY", "TERMINATED", "HOP_PART"}
              /\ b.mode = "HOP_PART" => b.step < Limit /\ b.global = GUESS
              /\ b.mode = "ENCLOSING" => b.part \in Donor[b.node]
<1> USE LimitAssumption
<1>0. TypeOK
  BY Parts
<1>1. PICK a \in walkable(r) : \E b \in walked(a) :
         agents' = (agents \ {a}) \cup {b}
  BY DEF Walk
<1>2. PICK b \in walked(a) : agents' = (agents \ {a}) \cup {b}
  BY <1>1
<1>3. a \in agents /\ a \in Agent /\ a.mode = "WALKING"
  BY <1>0 DEF walkable, TypeOK
<1>4. a.step \in 0..Limit /\ a.part \in Rank
  BY <1>3 DEF Agent
<1>5. CASE b = [a EXCEPT !.mode = "TERMINATED", !.step = Limit]
  <2>1. Limit \in 0..Limit
    OBVIOUS
  <2>2. b \in Agent /\ b.mode = "TERMINATED"
    BY <1>3, <1>5, <2>1 DEF Agent, Modes
  <2> QED
    BY <1>2, <1>3, <2>2
<1>6. CASE \E s \in a.step..(Limit - 1) : b \in ended(a, s)
  <2>1. PICK s \in a.step..(Limit - 1) : b \in ended(a, s)
    BY <1>6
  <2>2. s \in 0..Limit /\ s + 1 \in 0..Limit
    BY <1>4
  <2>3. CASE /\ b = [a EXCEPT !.mode = "ENCLOSING", !.step = s]
             /\ a.part \in Donor[a.node]
    <3>1. /\ b \in Agent /\ b.mode = "ENCLOSING" /\ b.part = a.part
          /\ b.node = a.node
      BY <1>3, <2>2, <2>3 DEF Agent, Modes
    <3> QED
      BY <1>2, <1>3, <2>3, <3>1
  <2>4. CASE b = stopped(a, s)
    <3>1. b \in Agent /\ b.mode \in {"AT_BOUNDARY", "TERMINATED"}
      BY <1>3, <2>2, <2>4 DEF Agent, Modes, stopped
    <3> QED
      BY <1>2, <1>3, <3>1
  <2>5. CASE \E q \in Rank \ {a.part} : b = left(a, s, q)
    <3>1. /\ b \in Agent /\ b.mode \in {"HOP_PART", "TERMINATED"}
          /\ b.mode = "HOP_PART" => b.step < Limit
      BY ZenonT(60), <1>3, <2>2, <2>5 DEF Agent, Modes, left
    <3>2. b.global = GUESS
      BY <1>3, <2>5 DEF Agent, left
    <3> QED
      BY <1>2, <1>3, <3>1, <3>2
  <2> QED
    BY <2>1, <2>3, <2>4, <2>5 DEF ended
<1> QED
  BY <1>2, <1>5, <1>6 DEF walked

(* The migration moves the agents and changes nothing else of them. *)
LEMMA MigrateStep ==
    ASSUME IndInv, Migrate
    PROVE  /\ \A b \in agents' : \E a \in agents :
                 /\ b.mode = a.mode /\ b.home = a.home /\ b.node = a.node
                 /\ b.part = a.part /\ b.global = a.global /\ b.step = a.step
                 /\ b.at = dest(a) /\ b.from = a.from
           /\ \A a \in agents : \E b \in agents' :
                 b.mode = a.mode /\ b.global = a.global
<1>0. agents \subseteq Agent
  BY Parts DEF TypeOK
<1>1. agents' = {[a EXCEPT !.at = dest(a)] : a \in agents}
  BY DEF Migrate
<1> DEFINE moved(a) == [a EXCEPT !.at = dest(a)]
<1>2. \A a \in agents :
         /\ moved(a).mode = a.mode /\ moved(a).home = a.home
         /\ moved(a).node = a.node /\ moved(a).part = a.part
         /\ moved(a).global = a.global /\ moved(a).step = a.step
         /\ moved(a).at = dest(a) /\ moved(a).from = a.from
  BY <1>0 DEF Agent
<1>3. agents' = {moved(a) : a \in agents}
  BY <1>1
<1> HIDE DEF moved
<1> QED
  BY <1>2, <1>3

(* SweepShape is kept by every step. *)
LEMMA SweepKept == IndInv /\ SweepShape /\ [Next]_vars => SweepShape'
<1> SUFFICES ASSUME IndInv, SweepShape, [Next]_vars PROVE SweepShape'
  OBVIOUS
<1>0. TypeOK /\ ProtocolShape
  BY Parts
<1>a. \A a \in agents : a \in Agent /\ a.from \in Node
  BY <1>0 DEF TypeOK, Agent
<1>b. \A n \in Node : cell[n] # EMPTY => cell'[n] = cell[n]
  BY CellsKept
<1>c. \A a \in agents : cell[a.from] # EMPTY => cell'[a.from] = cell[a.from]
  BY <1>a, <1>b
<1>1. ASSUME NEW n \in Node, Matched(n) \/ SeedTree(n) \/ WarmPush(n)
      PROVE  SweepShape'
  <2>1. /\ phase = "seed" /\ phase' = "seed"
        /\ \A a \in agents' \ agents :
              /\ a.mode \in {"WALKING", "SUGGESTION"}
              /\ a.step < Limit
              /\ a.mode = "SUGGESTION" => a.home # a.at
              /\ a.global # GUESS
              /\ cell'[a.from] # EMPTY /\ a.part = cell'[a.from]
    BY <1>1, SeedStep
  <2> QED
    BY <1>c, <2>1 DEF SweepShape
<1>2. ASSUME NEW r \in Rank, Walk(r) PROVE SweepShape'
  <2>1. phase = "walk" /\ phase' = "walk"
    BY <1>2 DEF Walk
  <2> QED
    BY <1>2, <1>c, <2>1, WalkStep DEF SweepShape
<1>3. ASSUME NEW r \in Rank, Hop(r) PROVE SweepShape'
  <2>1. PICK a \in hopped(r) :
           agents' = (agents \ {a}) \cup {[a EXCEPT !.mode = "WALKING"]}
    BY <1>3 DEF Hop
  <2>2. phase = "handle" /\ phase' = phase
    BY <1>3 DEF Hop
  <2> DEFINE b == [a EXCEPT !.mode = "WALKING"]
  <2>3. a \in agents /\ a.mode = "HOP_PART" /\ a \in Agent /\ a.at = a.part
    BY <1>0 DEF hopped, TypeOK
  <2>4. /\ b.mode = "WALKING" /\ b.step = a.step /\ b.global = a.global
        /\ b.at = a.at /\ b.part = a.part
    BY <2>3 DEF Agent
  <2>5. agents' = (agents \ {a}) \cup {b}
    BY <2>1
  <2> HIDE DEF b
  <2> QED
    BY <1>c, <2>2, <2>3, <2>4, <2>5 DEF SweepShape
<1>4. ASSUME NEW r \in Rank, Suggest(r) PROVE SweepShape'
  <2>1. PICK a \in suggested(r) :
           \/ agents' = agents \ {a}
           \/ agents' = (agents \ {a}) \cup
                 {[a EXCEPT !.mode = "WALKING", !.node = a.global,
                            !.global = EMPTY]}
    BY <1>4 DEF Suggest
  <2>2. phase = "handle" /\ phase' = phase
    BY <1>4 DEF Suggest
  <2> DEFINE b == [a EXCEPT !.mode = "WALKING", !.node = a.global,
                            !.global = EMPTY]
  <2>3. /\ a \in agents /\ a.mode = "SUGGESTION" /\ a \in Agent
        /\ a.global # GUESS
    BY <1>0, GuessAssumption DEF suggested, TypeOK, ProtocolShape
  <2>4. /\ b.mode = "WALKING" /\ b.step = a.step /\ b.from = a.from
        /\ b.part = a.part /\ b.global # GUESS
    BY <2>3, GuessAssumption DEF Agent
  <2>5. agents' \subseteq (agents \ {a}) \cup {b}
    BY <2>1
  <2> HIDE DEF b
  <2> QED
    BY <1>c, <2>2, <2>3, <2>4, <2>5 DEF SweepShape
<1>5. ASSUME NEW r \in Rank, Dismiss(r) PROVE SweepShape'
  BY <1>5 DEF Dismiss, SweepShape
<1>6. ASSUME NEW r \in Rank, Enclose(r) PROVE SweepShape'
  <2>1. phase = "handle" /\ phase' = phase
    BY <1>6 DEF Enclose
  <2>2. /\ \E a \in agents : a.mode = "ENCLOSING" /\ agents \ {a} \subseteq agents'
        /\ \A b \in agents' \ agents :
              /\ b.mode \in {"WALKING", "SUGGESTION"}
              /\ b.step < Limit
              /\ b.mode = "SUGGESTION" => b.home # b.at
              /\ b.global # GUESS
              /\ cell'[b.from] # EMPTY /\ b.part = cell'[b.from]
    BY <1>6, EncloseStep
  <2> QED
    BY <1>c, <2>1, <2>2 DEF SweepShape
<1>7. CASE Migrate
  <2>1. phase' = "handle" /\ cell' = cell
    BY <1>7 DEF Migrate
  <2> QED
    BY <1>7, <2>1, MigrateStep DEF SweepShape, dest
<1>8. CASE Seeded \/ SumAgents
  BY <1>8 DEF Seeded, SumAgents, SweepShape
<1>9. CASE Handled
  <2>1. /\ phase = "handle" /\ phase' = "sum" /\ agents' = agents
        /\ cell' = cell
        /\ \A r \in Rank :
              hopped(r) \cup suggested(r) \cup lost(r) \cup enclosing(r) = {}
    BY <1>9 DEF Handled
  <2>2. ASSUME NEW a \in agents
        PROVE  /\ a.mode \in {"WALKING", "SUGGESTION"}
               /\ a.mode = "SUGGESTION" => a.home # a.at
    <3>1. a.mode \in Modes /\ a.at \in Rank
      BY <1>0 DEF TypeOK, Agent
    <3>2. /\ a \notin hopped(a.at) /\ a \notin suggested(a.at)
          /\ a \notin lost(a.at) /\ a \notin enclosing(a.at)
      BY <2>1, <3>1
    <3> QED
      BY <2>1, <3>1, <3>2
      DEF SweepShape, Modes, hopped, suggested, lost, enclosing
  <2> QED
    BY <2>1, <2>2 DEF SweepShape
<1>10. CASE Tree \/ Nearest
  <2>1. agents = {} /\ phase' \in {"tree", "near", "done", "failed"}
    BY <1>0, <1>10 DEF Tree, Nearest, ProtocolShape
  <2>2. agents' = {}
    BY <1>10, <2>1 DEF Tree, Nearest, best_cell
  <2> QED
    BY <2>2 DEF SweepShape
<1>11. CASE Returned \/ UNCHANGED vars
  BY <1>11 DEF Returned, vars, SweepShape
<1> QED
  BY <1>1, <1>2, <1>3, <1>4, <1>5, <1>6, <1>7, <1>8, <1>9, <1>10, <1>11
  DEF Next, RankStep, Collective

(* What a sweep leaves behind has steps left and stands where its guess is *)
(* known, or starts from the cell of the neighbour that hired it, or is a  *)
(* suggestion that the next migration delivers: ref_interp_process_agents  *)
(* strands no agent.                                                       *)
THEOREM SweepsStrandNobody == Spec => []NoneStranded
<1>1. Init => SweepShape
  BY DEF Init, SweepShape
<1>2. IndInv /\ SweepShape => NoneStranded
  BY DEF IndInv, ProtocolShape, SweepShape, NoneStranded
<1> QED
  BY <1>1, <1>2, SweepKept, Inductive, PTL DEF Spec

(* DonorShape is kept by every step. *)
LEMMA DonorKept == IndInv /\ DonorShape /\ [Next]_vars => DonorShape'
<1> SUFFICES ASSUME IndInv, DonorShape, [Next]_vars PROVE DonorShape'
  OBVIOUS
<1>0. TypeOK /\ ProtocolShape
  BY Parts
<1>1. ASSUME NEW n \in Node, Matched(n) \/ SeedTree(n) \/ WarmPush(n)
      PROVE  DonorShape'
  <2>1. \A a \in agents' \ agents : a.mode \in {"WALKING", "SUGGESTION"}
    BY <1>1, SeedStep
  <2> QED
    BY <2>1 DEF DonorShape
<1>2. ASSUME NEW r \in Rank, Walk(r) PROVE DonorShape'
  BY <1>2, WalkStep DEF DonorShape
<1>3. ASSUME NEW r \in Rank, Hop(r) PROVE DonorShape'
  <2>1. \A b \in agents' : b \in agents \/ b.mode = "WALKING"
    BY <1>0, <1>3 DEF Hop, hopped, TypeOK, Agent
  <2> QED
    BY <2>1 DEF DonorShape
<1>4. ASSUME NEW r \in Rank, Suggest(r) PROVE DonorShape'
  <2>1. PICK a \in agents :
           \/ agents' = agents \ {a}
           \/ agents' = (agents \ {a}) \cup
                 {[a EXCEPT !.mode = "WALKING", !.node = a.global,
                            !.global = EMPTY]}
    BY <1>4 DEF Suggest, suggested
  <2>2. [a EXCEPT !.mode = "WALKING", !.node = a.global,
                  !.global = EMPTY].mode = "WALKING"
    BY <1>0 DEF TypeOK, Agent
  <2> QED
    BY <2>1, <2>2 DEF DonorShape
<1>5. ASSUME NEW r \in Rank, Dismiss(r) PROVE DonorShape'
  BY <1>5 DEF Dismiss, DonorShape
<1>6. ASSUME NEW r \in Rank, Enclose(r) PROVE DonorShape'
  <2>1. \A b \in agents' \ agents : b.mode \in {"WALKING", "SUGGESTION"}
    BY <1>6, EncloseStep
  <2> QED
    BY <2>1 DEF DonorShape
<1>7. CASE Migrate
  BY <1>7, MigrateStep DEF DonorShape
<1>8. CASE Seeded \/ SumAgents \/ Handled \/ Returned \/ UNCHANGED vars
  BY <1>8 DEF Seeded, SumAgents, Handled, Returned, vars, DonorShape
<1>9. CASE Tree \/ Nearest
  <2>1. agents = {}
    BY <1>0, <1>9 DEF Tree, Nearest, ProtocolShape
  <2>2. agents' = {}
    BY <1>9, <2>1 DEF Tree, Nearest, best_cell
  <2> QED
    BY <2>2 DEF DonorShape
<1> QED
  BY <1>1, <1>2, <1>3, <1>4, <1>5, <1>6, <1>7, <1>8, <1>9
  DEF Next, RankStep, Collective

(* The cell that the sweeps record for a node encloses that node, whatever *)
(* cells the search was started from.                                      *)
THEOREM WalksDeliverDonors == Spec => LocatedByDonor
<1>1. Init => DonorShape
  BY DEF Init, DonorShape
<1>2. IndInv /\ DonorShape /\ [Next]_vars =>
         [phase = "handle" =>
            \A n \in Node : cell'[n] # cell[n] => cell'[n] \in Donor[n]]_vars
  <2> SUFFICES ASSUME IndInv, DonorShape, Next, phase = "handle"
               PROVE  \A n \in Node : cell'[n] # cell[n] => cell'[n] \in Donor[n]
    OBVIOUS
  <2>0. TypeOK
    BY Parts
  <2>1. ASSUME NEW r \in Rank, Enclose(r)
        PROVE  \A n \in Node : cell'[n] # cell[n] => cell'[n] \in Donor[n]
    <3>1. PICK a \in agents :
             /\ a.mode = "ENCLOSING" /\ a.node \in Node
             /\ cell' = [cell EXCEPT ![a.node] = a.part]
      BY <2>1, EncloseStep
    <3>2. a.part \in Donor[a.node]
      BY <3>1 DEF DonorShape
    <3> QED
      BY <2>0, <3>1, <3>2 DEF TypeOK
  <2>2. ASSUME NEW r \in Rank,
               Walk(r) \/ Hop(r) \/ Suggest(r) \/ Dismiss(r)
        PROVE  cell' = cell
    BY <2>2 DEF Walk, Hop, Suggest, Dismiss
  <2>3. CASE Seeded \/ SumAgents \/ Migrate \/ Handled \/ Returned
    BY <2>3 DEF Seeded, SumAgents, Migrate, Handled, Returned, vars
  <2>4. ~Tree /\ ~Nearest
    BY DEF Tree, Nearest
  <2>5. \A n \in Node : ~Matched(n) /\ ~SeedTree(n) /\ ~WarmPush(n)
    BY DEF Matched, SeedTree, WarmPush
  <2> QED
    BY <2>1, <2>2, <2>3, <2>4, <2>5 DEF Next, RankStep, Collective
<1> QED
  BY <1>1, <1>2, DonorKept, Inductive, PTL DEF Spec, LocatedByDonor

(* FloodShape is kept by every step. *)
LEMMA FloodKept == IndInv /\ FloodShape /\ [Next]_vars => FloodShape'
<1> SUFFICES ASSUME IndInv, FloodShape, [Next]_vars PROVE FloodShape'
  OBVIOUS
<1> USE AroundAssumption
<1>0. /\ TypeOK /\ ProtocolShape
      /\ Consistent(cell, agent_hired, agents) /\ Addressed(agents)
  BY Parts
<1>1. ASSUME NEW n \in Node, Matched(n) \/ SeedTree(n) \/ WarmPush(n)
      PROVE  FloodShape'
  <2>1. /\ phase = "seed" /\ phase' = "seed" /\ todo' = todo \ {n}
        /\ \A a \in agents : a.mode = "SUGGESTION" => a \in agents'
        /\ \A m \in Node \ {n} : agent_hired[m] => agent_hired'[m]
        /\ gaveup \subseteq gaveup'
        /\ cell'[n] # EMPTY \/ n \in gaveup'
        /\ cell'[n] # EMPTY => \A m \in Around[n] :
              \/ cell'[m] # EMPTY
              \/ agent_hired'[m]
              \/ \E a \in agents' : a.mode = "SUGGESTION" /\ a.global = m
        /\ \A m \in Node \ {n} : cell'[m] = cell[m]
    BY <1>1, SeedStep
  <2>2. \A m \in Node : accounted(m) => accounted(m)'
    BY <2>1 DEF accounted
  <2>3. ASSUME NEW m \in pushed', NEW k \in Around[m] PROVE accounted(k)'
    <3>1. m \in Node /\ k \in Node /\ cell'[m] # EMPTY /\ m \notin todo'
      BY <2>1 DEF pushed
    <3>2. CASE m = n
      BY <2>1, <3>1, <3>2 DEF accounted
    <3>3. CASE m # n
      <4>1. m \in pushed
        BY <2>1, <3>1, <3>3 DEF pushed
      <4> QED
        BY <2>1, <2>2, <3>1, <4>1 DEF FloodShape
    <3> QED
      BY <3>2, <3>3
  <2> QED
    BY <2>3 DEF FloodShape
<1>2. ASSUME NEW r \in Rank, Walk(r) PROVE FloodShape'
  <2>1. \A a \in agents : a.mode = "SUGGESTION" => a \in agents'
    BY <1>2, WalkStep
  <2> QED
    BY <1>2, <2>1 DEF Walk, FloodShape, pushed, accounted
<1>3. ASSUME NEW r \in Rank, Hop(r) PROVE FloodShape'
  <2>1. \A a \in agents : a.mode = "SUGGESTION" => a \in agents'
    BY <1>3 DEF Hop, hopped
  <2> QED
    BY <1>3, <2>1 DEF Hop, FloodShape, pushed, accounted
<1>4. ASSUME NEW r \in Rank, Suggest(r) PROVE FloodShape'
  <2>1. PICK a \in suggested(r) :
          /\ \A b \in agents \ {a} : b \in agents'
          /\ \/ /\ cell[a.global] # EMPTY \/ agent_hired[a.global]
                /\ agent_hired' = agent_hired
             \/ agent_hired' = [agent_hired EXCEPT ![a.global] = TRUE]
    BY <1>4 DEF Suggest
  <2>2. /\ phase' = phase /\ todo' = todo /\ cell' = cell
        /\ gaveup' = gaveup /\ phase = "handle"
    BY <1>4 DEF Suggest
  <2>3. a.global \in Node
    BY <1>0 DEF suggested, Addressed
  <2>4. \A m \in Node : accounted(m) => accounted(m)'
    <3> SUFFICES ASSUME NEW m \in Node, accounted(m) PROVE accounted(m)'
      OBVIOUS
    <3>1. CASE m = a.global
      BY <1>0, <2>1, <2>2, <2>3, <3>1 DEF accounted, TypeOK
    <3>2. CASE m # a.global
      <4>1. agent_hired'[m] = agent_hired[m]
        BY <1>0, <2>1, <3>2 DEF TypeOK
      <4> QED
        BY <2>1, <2>2, <3>2, <4>1 DEF accounted
    <3> QED
      BY <3>1, <3>2
  <2> QED
    BY <2>2, <2>4 DEF FloodShape, pushed
<1>5. ASSUME NEW r \in Rank, Dismiss(r) PROVE FloodShape'
  <2>1. PICK a \in lost(r) :
          /\ agents' = agents \ {a}
          /\ agent_hired' = [agent_hired EXCEPT ![a.node] = FALSE]
          /\ gaveup' = gaveup \cup {a.node}
    BY <1>5 DEF Dismiss
  <2>2. /\ phase' = phase /\ todo' = todo /\ cell' = cell /\ phase = "handle"
    BY <1>5 DEF Dismiss
  <2>3. a.mode # "SUGGESTION"
    BY DEF lost
  <2>4. \A m \in Node : accounted(m) => accounted(m)'
    <3> SUFFICES ASSUME NEW m \in Node, accounted(m) PROVE accounted(m)'
      OBVIOUS
    <3>1. CASE m = a.node
      BY <2>1, <3>1 DEF accounted
    <3>2. CASE m # a.node
      <4>1. agent_hired'[m] = agent_hired[m]
        BY <1>0, <2>1, <3>2 DEF TypeOK
      <4> QED
        BY <2>1, <2>2, <2>3, <4>1 DEF accounted
    <3> QED
      BY <3>1, <3>2
  <2> QED
    BY <2>2, <2>4 DEF FloodShape, pushed
<1>6. ASSUME NEW r \in Rank, Enclose(r) PROVE FloodShape'
  <2>1. PICK a \in agents :
           /\ a.mode = "ENCLOSING" /\ a.node \in Node /\ a.part \in Rank
           /\ cell' = [cell EXCEPT ![a.node] = a.part]
           /\ agents \ {a} \subseteq agents'
           /\ \A m \in Node \ {a.node} : agent_hired[m] => agent_hired'[m]
           /\ \A m \in Around[a.node] :
                 \/ cell'[m] # EMPTY
                 \/ agent_hired'[m]
                 \/ \E b \in agents' : b.mode = "SUGGESTION" /\ b.global = m
    BY <1>6, EncloseStep
  <2>2. /\ phase' = phase /\ gaveup' = gaveup /\ phase = "handle"
    BY <1>6 DEF Enclose
  <2>3. /\ cell'[a.node] # EMPTY
        /\ \A m \in Node \ {a.node} : cell'[m] = cell[m]
    BY <1>0, <2>1, EmptyAssumption DEF TypeOK
  <2>4. \A m \in Node : accounted(m) => accounted(m)'
    BY <2>1, <2>2, <2>3 DEF accounted
  <2>5. ASSUME NEW m \in pushed', NEW k \in Around[m] PROVE accounted(k)'
    <3>1. m \in Node /\ k \in Node /\ cell'[m] # EMPTY
      BY DEF pushed
    <3>2. CASE m = a.node
      BY <2>1, <3>1, <3>2 DEF accounted
    <3>3. CASE m # a.node
      <4>1. m \in pushed
        BY <2>2, <2>3, <3>1, <3>3 DEF pushed
      <4> QED
        BY <2>2, <2>4, <3>1, <4>1 DEF FloodShape
    <3> QED
      BY <3>2, <3>3
  <2> QED
    BY <2>5 DEF FloodShape
<1>7. CASE Migrate
  <2>1. /\ phase = "walk" /\ phase' = "handle" /\ cell' = cell
        /\ agent_hired' = agent_hired /\ gaveup' = gaveup
    BY <1>7 DEF Migrate
  <2>2. \A m \in Node : accounted(m) => accounted(m)'
    BY <1>7, <2>1, MigrateStep DEF accounted
  <2> QED
    BY <2>1, <2>2 DEF FloodShape, pushed
<1>8. CASE Seeded
  BY <1>8 DEF Seeded, FloodShape, pushed, accounted
<1>9. CASE SumAgents \/ Handled \/ Returned \/ UNCHANGED vars
  BY <1>9 DEF SumAgents, Handled, Returned, vars, FloodShape, pushed, accounted
<1>10. CASE Tree
  <2>1. tries \in Nat /\ tries' = tries + 1
        /\ phase' \in {"near", "tree", "done", "failed"}
    BY <1>0, <1>10, LimitAssumption DEF Tree, TypeOK
  <2> QED
    BY <2>1 DEF FloodShape
<1>11. CASE Nearest
  BY <1>11 DEF Nearest, FloodShape
<1> QED
  BY <1>1, <1>2, <1>3, <1>4, <1>5, <1>6, <1>7, <1>8, <1>9, <1>10, <1>11
  DEF Next, RankStep, Collective

(* The flood forgets no neighbour: no suggestion is dropped that somebody  *)
(* still relies on, and no node is left out of the tree search's account.  *)
THEOREM FloodForgetsNobody == Spec => []FloodComplete
<1>1. Init => FloodShape
  BY DEF Init, FloodShape, pushed
<1>2. IndInv /\ FloodShape => FloodComplete
  <2> SUFFICES ASSUME IndInv, FloodShape, phase = "tree", tries = 0,
                      NEW m \in Node, cell[m] # EMPTY, NEW n \in Around[m]
               PROVE  cell[n] # EMPTY \/ n \in gaveup
    BY DEF FloodComplete
  <2>1. agents = {} /\ n \in Node
    BY AroundAssumption DEF IndInv, ProtocolShape
  <2>2. ~agent_hired[n]
    BY <2>1 DEF IndInv, OneAgentPerNode
  <2>3. accounted(n)
    BY DEF FloodShape, pushed
  <2> QED
    BY <2>1, <2>2, <2>3 DEF accounted
<1> QED
  BY <1>1, <1>2, FloodKept, Inductive, PTL DEF Spec
=============================================================================
