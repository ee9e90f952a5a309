------------------------- MODULE ExecutionNodeProofs -------------------------
(***************************************************************************)
(* Theorems about the control of a query's execution, for every plan,      *)
(* mask, number of rows and block size: types, how often each consumer has *)
(* asked a node and each node has answered, and what a nullptr means.      *)
(*                                                                         *)
(* The argument has two layers here.  The TYPES say what the nodes, the    *)
(* stack of calls and the locals of the operators look like.  The CONTROL  *)
(* relates the calls of the consumers of a node to one another: it needs   *)
(* two history functions, the answered calls of each consumer and the      *)
(* rounds of each driver (the one consumer that sets the pace of a node),  *)
(* which an existential quantifier in the invariant hides.  A third layer, *)
(* the rows the nodes hold, is ExecutionNodeDataProofs.                    *)
(***************************************************************************)
EXTENDS ExecutionNode, SequenceTheorems, FiniteSetTheorems, TLAPS

-----------------------------------------------------------------------------
(* The shape of a plan.                                                    *)

\* Every set of naturals that is not empty has a least element.
LEMMA Least ==
  ASSUME NEW T \in SUBSET Nat, T # {}
  PROVE  \E m \in T : \A k \in T : m <= k
<1> DEFINE R == OpToRel(<, Nat)
<1>1. IsWellFoundedOn(R, Nat)
  BY NatLessThanWellFounded
<1>2. \A i, j \in Nat : <<i, j>> \in R <=> i < j
  BY DEF OpToRel
<1> HIDE DEF R
<1>3. PICK m \in T : \A y \in T : ~ (<<y, m>> \in R)
  BY <1>1, WFMin
<1>4. ASSUME NEW k \in T PROVE m <= k
  <2>1. m \in Nat /\ k \in Nat /\ ~ (<<k, m>> \in R)
    BY <1>3
  <2>2. QED
    BY <1>2, <2>1
<1>5. QED
  BY <1>4

\* The greatest element of a set of naturals that has a bound.
LEMMA Greatest ==
  ASSUME NEW b \in Nat, NEW T \in SUBSET (0 .. b), T # {}
  PROVE  \E m \in T : \A k \in T : k <= m
<1> DEFINE U == {x \in Nat : \E t \in T : x = b - t}
<1>1. U \in SUBSET Nat /\ U # {}
  <2>1. PICK t \in T : TRUE
    OBVIOUS
  <2>2. b - t \in Nat
    OBVIOUS
  <2>3. b - t \in U
    BY <2>2
  <2>4. QED
    BY <2>3
<1>2. \A t \in T : t \in 0 .. b /\ b - t \in U
  <2> TAKE t \in T
  <2>1. t \in 0 .. b
    OBVIOUS
  <2>2. b - t \in Nat
    BY <2>1
  <2>3. QED
    BY <2>1, <2>2
<1>3. \A x \in U : \E t \in T : x = b - t
  OBVIOUS
<1> HIDE DEF U
<1>4. PICK u \in U : \A x \in U : u <= x
  BY <1>1, Least
<1>5. PICK m \in T : u = b - m
  BY <1>3
<1>6. ASSUME NEW k \in T PROVE k <= m
  <2>1. u <= b - k
    BY <1>2, <1>4
  <2>2. QED
    BY <1>2, <1>5, <2>1
<1>7. QED
  BY <1>6

\* The consumers of all nodes.
Edges(p) == {Executor} \cup {c \in (DOMAIN p) \X (1 .. 2) : c[2] \in DOMAIN p[c[1]].in}

\* The node a consumer reads.
Src(p, c) == IF c = Executor THEN Len(p) ELSE p[c[1]].in[c[2]]

Arity(p, n) == Len(p[n].in)

LEMMA PlanShape ==
  ASSUME NEW p, IsPlan(p)
  PROVE  /\ Len(p) \in Nat \ {0} /\ DOMAIN p = 1 .. Len(p) /\ Len(p) \in DOMAIN p
         /\ \A n \in DOMAIN p : /\ n \in Nat \ {0}
                                /\ p[n].op \in {"source", "linear", "filter", "append"}
                                /\ p[n].in \in Seq(Nat)
                                /\ DOMAIN p[n].in = 1 .. Arity(p, n)
                                /\ Arity(p, n) \in Nat
<1>1. p \in Seq([op : {"source", "linear", "filter", "append"}, in : Seq(Nat)]) /\ p # <<>>
  BY DEF IsPlan, PlanType
<1>2. Len(p) \in Nat \ {0} /\ DOMAIN p = 1 .. Len(p)
  BY <1>1
<1>3. ASSUME NEW n \in DOMAIN p
      PROVE  p[n].op \in {"source", "linear", "filter", "append"} /\ p[n].in \in Seq(Nat)
  <2>1. p[n] \in [op : {"source", "linear", "filter", "append"}, in : Seq(Nat)]
    BY <1>1, <1>2, <1>3, ElementOfSeq
  <2>2. QED
    BY <2>1
<1>4. ASSUME NEW n \in DOMAIN p
      PROVE  DOMAIN p[n].in = 1 .. Arity(p, n) /\ Arity(p, n) \in Nat
  BY <1>3, <1>4 DEF Arity
<1>5. QED
  BY <1>2, <1>3, <1>4

LEMMA PlanArity ==
  ASSUME NEW p, IsPlan(p), NEW n \in DOMAIN p
  PROVE  /\ Arity(p, n) \in 0 .. 2
         /\ p[n].op = "source" <=> Arity(p, n) = 0
         /\ p[n].op \in {"filter", "append"} => Arity(p, n) = 2
         /\ \A i \in 1 .. Arity(p, n) : p[n].in[i] \in DOMAIN p /\ p[n].in[i] < n
<1>1. Arity(p, n) \in Arities(p[n].op) /\ \A i \in DOMAIN p[n].in : p[n].in[i] \in 1 .. (n - 1)
  BY DEF IsPlan, Arity
<1>2. /\ Len(p) \in Nat \ {0} /\ DOMAIN p = 1 .. Len(p) /\ n \in Nat \ {0}
      /\ p[n].op \in {"source", "linear", "filter", "append"}
      /\ DOMAIN p[n].in = 1 .. Arity(p, n)
  BY PlanShape
<1>3. \/ p[n].op = "source" /\ Arity(p, n) = 0
      \/ p[n].op = "linear" /\ Arity(p, n) \in {1, 2}
      \/ p[n].op \in {"filter", "append"} /\ Arity(p, n) = 2
  BY <1>1, <1>2 DEF Arities
<1>4. ASSUME NEW i \in 1 .. Arity(p, n) PROVE p[n].in[i] \in DOMAIN p /\ p[n].in[i] < n
  BY <1>1, <1>2
<1>5. QED
  BY <1>3, <1>4

\* What is known of a consumer.
LEMMA EdgeShape ==
  ASSUME NEW p, IsPlan(p), NEW c \in Edges(p)
  PROVE  /\ Src(p, c) \in DOMAIN p
         /\ \/ c = Executor /\ Src(p, c) = Len(p) /\ c[1] = 0
            \/ /\ c # Executor /\ c = <<c[1], c[2]>>
               /\ c[1] \in DOMAIN p /\ c[2] \in 1 .. Arity(p, c[1]) /\ c[2] \in 1 .. 2
               /\ Src(p, c) = p[c[1]].in[c[2]] /\ Src(p, c) < c[1]
<1>1. CASE c = Executor
  BY <1>1, PlanShape DEF Src, Executor
<1>2. CASE c # Executor
  <2>1. c \in (DOMAIN p) \X (1 .. 2) /\ c[2] \in DOMAIN p[c[1]].in
    BY <1>2 DEF Edges
  <2>2. c = <<c[1], c[2]>> /\ c[1] \in DOMAIN p /\ c[2] \in 1 .. 2
    BY <2>1
  <2>3. c[2] \in 1 .. Arity(p, c[1])
    BY <2>1, <2>2, PlanShape
  <2>4. Src(p, c) = p[c[1]].in[c[2]]
    BY <1>2 DEF Src
  <2>5. QED
    BY <1>2, <2>2, <2>3, <2>4, PlanArity
<1>3. QED
  BY <1>1, <1>2

LEMMA IsEdge ==
  ASSUME NEW p, IsPlan(p), NEW m \in DOMAIN p, NEW i \in 1 .. Arity(p, m)
  PROVE  /\ <<m, i>> \in Edges(p) /\ <<m, i>> # Executor
         /\ Src(p, <<m, i>>) = p[m].in[i]
<1>1. m # 0
  BY PlanShape
<1>2. <<m, i>> # Executor
  BY <1>1 DEF Executor
<1>3. i \in 1 .. 2 /\ i \in DOMAIN p[m].in
  <2>1. Arity(p, m) \in 0 .. 2
    BY PlanArity
  <2>2. DOMAIN p[m].in = 1 .. Arity(p, m)
    BY PlanShape
  <2>3. QED
    BY <2>1, <2>2
<1>4. QED
  BY <1>2, <1>3 DEF Edges, Src

LEMMA ConsumersAreEdges ==
  ASSUME NEW p, IsPlan(p), NEW n \in DOMAIN p
  PROVE  ConsumersOf(p, n) = {c \in Edges(p) : Src(p, c) = n}
<1>1. ASSUME NEW c \in ConsumersOf(p, n) PROVE c \in Edges(p) /\ Src(p, c) = n
  <2>1. CASE n = Len(p) /\ c = Executor
    BY <2>1 DEF Edges, Src
  <2>2. CASE ~ (n = Len(p) /\ c = Executor)
    <3>1. c \in (DOMAIN p) \X (1 .. Len(p)) /\ c[2] \in DOMAIN p[c[1]].in /\ p[c[1]].in[c[2]] = n
      BY <2>2 DEF ConsumersOf
    <3>2. PICK m \in DOMAIN p, i \in 1 .. Len(p) : c = <<m, i>>
      BY <3>1
    <3>3. i \in 1 .. Arity(p, m) /\ p[m].in[i] = n
      BY <3>1, <3>2, PlanShape
    <3>4. QED
      BY <3>2, <3>3, IsEdge
  <2>3. QED
    BY <2>1, <2>2
<1>2. ASSUME NEW c \in Edges(p), Src(p, c) = n PROVE c \in ConsumersOf(p, n)
  <2>1. CASE c = Executor
    BY <1>2, <2>1 DEF ConsumersOf, Src
  <2>2. CASE c # Executor
    <3>1. /\ c = <<c[1], c[2]>> /\ c[1] \in DOMAIN p /\ c[2] \in 1 .. Arity(p, c[1])
          /\ p[c[1]].in[c[2]] = n /\ n < c[1]
      BY <1>2, <2>2, EdgeShape
    <3>2. PICK m \in DOMAIN p, i \in Nat : c = <<m, i>> /\ i \in 1 .. Arity(p, m)
      BY <3>1, PlanArity
    <3>3. m \in 1 .. Len(p) /\ n \in 1 .. Len(p) /\ n < m /\ Len(p) \in Nat
      BY <3>1, <3>2, PlanShape
    <3>4. i \in 1 .. Len(p)
      BY <3>2, <3>3, PlanArity
    <3>5. c \in (DOMAIN p) \X (1 .. Len(p)) /\ c[2] \in DOMAIN p[c[1]].in
      BY <3>2, <3>4, PlanShape
    <3>6. QED
      BY <3>1, <3>5 DEF ConsumersOf
  <2>3. QED
    BY <2>1, <2>2
<1>3. QED
  BY <1>1, <1>2 DEF ConsumersOf

\* Every node but the tip is read by a later one.
LEMMA HasConsumer ==
  ASSUME NEW p, IsPlan(p), NEW n \in DOMAIN p
  PROVE  \E c \in Edges(p) : Src(p, c) = n
<1>1. CASE n = Len(p)
  BY <1>1 DEF Edges, Src
<1>2. CASE n # Len(p)
  <2>1. n \in 1 .. (Len(p) - 1)
    BY <1>2, PlanShape
  <2>2. PICK m \in DOMAIN p : \E i \in DOMAIN p[m].in : p[m].in[i] = n
    BY <2>1 DEF IsPlan
  <2>3. PICK i \in DOMAIN p[m].in : p[m].in[i] = n
    BY <2>2
  <2>4. i \in 1 .. Arity(p, m)
    BY <2>3, PlanShape
  <2>5. QED
    BY <2>3, <2>4, IsEdge
<1>3. QED
  BY <1>1, <1>2
-----------------------------------------------------------------------------
(* The shape of the nodes and of the stack.  The predicates of this module *)
(* take the parts of the state as parameters (p the plan, nd the nodes, st *)
(* the stack), so that they can be stated of the state before and after a  *)
(* step alike.                                                             *)

AskingPcs == {"get", "drain", "first_left", "first_right", "right", "left", "skip_left"}
SkippingPcs == {"drain", "skip_left"}

Pcs(op) == CASE op = "source" -> {"read"}
             [] op = "linear" -> {"get", "drain", "apply", "fake"}
             [] op = "filter" -> {"first_left", "first_right", "first", "check", "rows", "right",
                                  "test", "left", "skip_left", "tail", "end"}
             [] op = "append" -> {"get", "copy", "tail", "end"}

AllPcs == {"read", "get", "drain", "apply", "fake", "first_left", "first_right", "first",
           "check", "rows", "right", "test", "left", "skip_left", "tail", "end", "copy"}

LocalType == [pc : AllPcs, arg : 1 .. 2, got : [1 .. 2 -> BOOLEAN], row : 1 .. (BlockSize + 1),
              outidx : 0 .. (BlockSize - 1), start : 0 .. NumRows, skip_next_block : BOOLEAN]

\* The local variables fit the operator of node n; when it asks, arg says for
\* which input.
LocalOK(p, n, o) ==
  /\ o \in LocalType
  /\ o.pc \in Pcs(p[n].op)
  /\ p[n].op # "source" => o.arg <= Arity(p, n)
  /\ o.pc \in {"first_left", "test", "left", "skip_left"} => o.arg = 1
  /\ o.pc \in {"first_right", "right"} => o.arg = 2

Exceptions == {"none", "failed", "canceled", "assert"}

NodeType(p, n) ==
  [started : BOOLEAN, done : BOOLEAN, skip : BOOLEAN, exception : Exceptions,
   queue : Seq(BOOLEAN), popped : [ConsumersOf(p, n) -> Nat], buffer : Seq(0 .. NumRows),
   local : LocalType]

NodeOK(p, n, x) ==
  x \in NodeType(p, n) /\ Len(x.buffer) <= BlockSize /\ LocalOK(p, n, x.local)

Shape(p, nd) ==
  /\ nd = [n \in DOMAIN p |-> nd[n]]
  /\ \A n \in DOMAIN p : NodeOK(p, n, nd[n])

FrameType(p) == [node : DOMAIN p, consumer : Edges(p), skip : BOOLEAN, inside : BOOLEAN]

\* Frame f is that of a call made by the operator of frame g.
CalledBy(nd, g, f) ==
  /\ g.inside /\ nd[g.node].local.pc \in AskingPcs
  /\ f.consumer = <<g.node, nd[g.node].local.arg>>
  /\ f.skip = (nd[g.node].local.pc \in SkippingPcs)

FrameOK(p, nd, f) ==
  /\ f.node = Src(p, f.consumer)
  /\ nd[f.node].started /\ nd[f.node].skip = f.skip
  /\ f.inside => ~ nd[f.node].done

StackOK(p, nd, st) ==
  /\ st \in Seq(FrameType(p))
  /\ \A k \in 1 .. Len(st) : FrameOK(p, nd, st[k])
  /\ st # <<>> => st[1].consumer = Executor /\ ~ st[1].skip
  /\ \A k \in 2 .. Len(st) : CalledBy(nd, st[k - 1], st[k])
  /\ \A j, k \in 1 .. Len(st) : j < k => st[k].node < st[j].node

LEMMA ShapeUpdate ==
  ASSUME NEW p, NEW nd, Shape(p, nd), NEW n \in DOMAIN p, NEW x, NodeOK(p, n, x)
  PROVE  Shape(p, [nd EXCEPT ![n] = x])
BY DEF Shape

\* The node on top changes, and perhaps whether it runs.
LEMMA StackSame ==
  ASSUME NEW p, IsPlan(p), NEW nd, NEW st, StackOK(p, nd, st), st # <<>>,
         NEW f, f = st[Len(st)], NEW nd2,
         \A x \in DOMAIN p : x # f.node => nd2[x] = nd[x],
         nd2[f.node].started, nd2[f.node].skip = nd[f.node].skip,
         NEW b \in BOOLEAN, b => ~ nd2[f.node].done
  PROVE  StackOK(p, nd2, [st EXCEPT ![Len(st)] = [f EXCEPT !.inside = b]])
<1>1. st \in Seq(FrameType(p)) /\ Len(st) \in Nat \ {0} /\ DOMAIN st = 1 .. Len(st)
  BY DEF StackOK
<1>2. PICK l \in Nat \ {0} : l = Len(st)
  BY <1>1
<1>3. \A k \in 1 .. l : st[k] \in FrameType(p)
  BY <1>1, <1>2, ElementOfSeq
<1>4. PICK g : g = [f EXCEPT !.inside = b]
  OBVIOUS
<1>5. f \in FrameType(p)
  BY <1>2, <1>3
<1>6. g \in FrameType(p) /\ g.node = f.node /\ g.consumer = f.consumer /\ g.skip = f.skip /\ g.inside = b
  BY <1>4, <1>5 DEF FrameType
<1>7. PICK s2 : s2 = [st EXCEPT ![l] = g]
  OBVIOUS
<1>8. /\ s2 \in Seq(FrameType(p)) /\ Len(s2) = l /\ s2[l] = g
      /\ \A k \in 1 .. l : k # l => s2[k] = st[k]
  BY <1>1, <1>2, <1>6, <1>7
<1>9. /\ \A k \in 1 .. l : FrameOK(p, nd, st[k])
      /\ st[1].consumer = Executor /\ ~ st[1].skip
      /\ \A k \in 2 .. l : CalledBy(nd, st[k - 1], st[k])
      /\ \A j, k \in 1 .. l : j < k => st[k].node < st[j].node
  BY <1>2 DEF StackOK
<1>10. \A k \in 1 .. l : k # l => st[k].node # f.node /\ st[k].node \in DOMAIN p /\ f.node < st[k].node
  <2> TAKE k \in 1 .. l
  <2> HAVE k # l
  <2>1. k < l /\ l \in 1 .. l
    BY <1>2
  <2>2. f.node < st[k].node
    BY <1>2, <1>9, <2>1
  <2>3. st[k].node \in DOMAIN p /\ f.node \in DOMAIN p
    BY <1>3, <1>5 DEF FrameType
  <2>4. f.node \in Nat
    BY <2>3, PlanShape
  <2>5. QED
    BY <2>2, <2>3, <2>4
<1>11. ASSUME NEW k \in 1 .. l PROVE FrameOK(p, nd2, s2[k])
  <2>1. CASE k = l
    BY <1>2, <1>6, <1>8, <1>9, <2>1 DEF FrameOK
  <2>2. CASE k # l
    <3>1. FrameOK(p, nd, st[k]) /\ nd2[st[k].node] = nd[st[k].node] /\ s2[k] = st[k]
      BY <1>8, <1>9, <1>10, <2>2
    <3>2. QED
      BY <3>1 DEF FrameOK
  <2>3. QED
    BY <2>1, <2>2
<1>12. s2[1].consumer = Executor /\ ~ s2[1].skip
  <2>1. CASE l = 1
    BY <1>2, <1>6, <1>8, <1>9, <2>1
  <2>2. CASE l # 1
    <3>1. s2[1] = st[1]
      BY <1>2, <1>8, <2>2
    <3>2. QED
      BY <1>9, <3>1
  <2>3. QED
    BY <2>1, <2>2
<1>13. ASSUME NEW k \in 2 .. l PROVE CalledBy(nd2, s2[k - 1], s2[k])
  <2>1. k - 1 \in 1 .. l /\ k - 1 # l /\ k \in 1 .. l
    BY <1>2
  <2>2. s2[k - 1] = st[k - 1] /\ nd2[st[k - 1].node] = nd[st[k - 1].node]
    BY <1>8, <1>10, <2>1
  <2>3. s2[k].consumer = st[k].consumer /\ s2[k].skip = st[k].skip
    BY <1>2, <1>6, <1>8, <2>1
  <2>4. CalledBy(nd, st[k - 1], st[k])
    BY <1>9
  <2>5. QED
    BY <2>2, <2>3, <2>4 DEF CalledBy
<1>14. ASSUME NEW j \in 1 .. l, NEW k \in 1 .. l, j < k PROVE s2[k].node < s2[j].node
  <2>1. s2[j].node = st[j].node /\ s2[k].node = st[k].node
    BY <1>2, <1>6, <1>8
  <2>2. QED
    BY <1>9, <1>14, <2>1
<1>15. StackOK(p, nd2, s2)
  BY <1>8, <1>11, <1>12, <1>13, <1>14 DEF StackOK
<1>16. QED
  BY <1>2, <1>4, <1>7, <1>15

LEMMA StackTyped ==
  ASSUME NEW p, IsPlan(p), NEW nd, NEW st, StackOK(p, nd, st)
  PROVE  /\ st \in Seq(FrameType(p)) /\ Len(st) \in Nat /\ DOMAIN st = 1 .. Len(st)
         /\ \A k \in 1 .. Len(st) :
              /\ st[k].node \in DOMAIN p /\ st[k].node \in Nat /\ st[k].consumer \in Edges(p)
              /\ st[k].skip \in BOOLEAN /\ st[k].inside \in BOOLEAN
<1>1. st \in Seq(FrameType(p)) /\ Len(st) \in Nat /\ DOMAIN st = 1 .. Len(st)
  BY DEF StackOK
<1>2. \A k \in 1 .. Len(st) : st[k] \in FrameType(p)
  BY <1>1, ElementOfSeq
<1>3. \A k \in 1 .. Len(st) :
        /\ st[k].node \in DOMAIN p /\ st[k].consumer \in Edges(p)
        /\ st[k].skip \in BOOLEAN /\ st[k].inside \in BOOLEAN
  BY <1>2 DEF FrameType
<1>4. QED
  BY <1>1, <1>3, PlanShape

\* A call is entered, by the executor or by the operator on top.
LEMMA StackPush ==
  ASSUME NEW p, IsPlan(p), NEW nd, NEW st, StackOK(p, nd, st), NEW g \in FrameType(p), NEW nd2,
         st = <<>> => g.consumer = Executor /\ ~ g.skip,
         st # <<>> => CalledBy(nd, st[Len(st)], g) /\ g.node < st[Len(st)].node,
         \A x \in DOMAIN p : x # g.node => nd2[x] = nd[x],
         FrameOK(p, nd2, g)
  PROVE  StackOK(p, nd2, Append(st, g))
<1>1. PICK l \in Nat : l = Len(st)
  BY StackTyped
<1>2. st \in Seq(FrameType(p)) /\ \A k \in 1 .. l : st[k].node \in DOMAIN p /\ st[k].node \in Nat
  BY <1>1, StackTyped
<1>3. PICK s2 : s2 = Append(st, g)
  OBVIOUS
<1>4. s2 \in Seq(FrameType(p)) /\ Len(s2) = l + 1 /\ s2[l + 1] = g /\ \A k \in 1 .. l : s2[k] = st[k]
  BY <1>1, <1>2, <1>3
<1>5. st # <<>> <=> l # 0
  BY <1>1, <1>2
<1>6. /\ \A k \in 1 .. l : FrameOK(p, nd, st[k])
      /\ l # 0 => st[1].consumer = Executor /\ ~ st[1].skip
      /\ \A k \in 2 .. l : CalledBy(nd, st[k - 1], st[k])
      /\ \A j, k \in 1 .. l : j < k => st[k].node < st[j].node
  BY <1>1, <1>5 DEF StackOK
<1>7. g.node \in DOMAIN p /\ g.node \in Nat
  BY PlanShape DEF FrameType
<1>8. ASSUME NEW k \in 1 .. l PROVE g.node < st[k].node /\ nd2[st[k].node] = nd[st[k].node]
  <2>1. l # 0 /\ g.node < st[l].node /\ l \in 1 .. l
    BY <1>1, <1>5
  <2>2. st[l].node \in Nat /\ st[k].node \in Nat /\ st[k].node \in DOMAIN p
    BY <1>2, <2>1
  <2>3. CASE k = l
    BY <1>7, <2>1, <2>2, <2>3
  <2>4. CASE k # l
    <3>1. st[l].node < st[k].node
      BY <1>6, <2>1, <2>4
    <3>2. QED
      BY <1>7, <2>1, <2>2, <3>1
  <2>5. QED
    BY <2>3, <2>4
<1>9. ASSUME NEW k \in 1 .. (l + 1) PROVE FrameOK(p, nd2, s2[k])
  <2>1. CASE k = l + 1
    BY <1>4, <2>1
  <2>2. CASE k # l + 1
    <3>1. k \in 1 .. l
      BY <2>2
    <3>2. FrameOK(p, nd, st[k]) /\ s2[k] = st[k] /\ nd2[st[k].node] = nd[st[k].node]
      BY <1>4, <1>6, <1>8, <3>1
    <3>3. QED
      BY <3>2 DEF FrameOK
  <2>3. QED
    BY <2>1, <2>2
<1>10. s2[1].consumer = Executor /\ ~ s2[1].skip
  <2>1. CASE l = 0
    BY <1>4, <1>5, <2>1
  <2>2. CASE l # 0
    <3>1. s2[1] = st[1]
      BY <1>4, <2>2
    <3>2. QED
      BY <1>6, <2>2, <3>1
  <2>3. QED
    BY <2>1, <2>2
<1>11. ASSUME NEW k \in 2 .. (l + 1) PROVE CalledBy(nd2, s2[k - 1], s2[k])
  <2>1. k - 1 \in 1 .. l
    OBVIOUS
  <2>2. s2[k - 1] = st[k - 1] /\ nd2[st[k - 1].node] = nd[st[k - 1].node]
    BY <1>4, <1>8, <2>1
  <2>3. CalledBy(nd, st[k - 1], s2[k])
    <3>1. CASE k = l + 1
      <4>1. k - 1 = l /\ l # 0
        BY <3>1, <2>1
      <4>2. QED
        BY <1>1, <1>4, <1>5, <3>1, <4>1
    <3>2. CASE k # l + 1
      <4>1. k \in 2 .. l /\ k \in 1 .. l
        BY <3>2
      <4>2. QED
        BY <1>4, <1>6, <4>1
    <3>3. QED
      BY <3>1, <3>2
  <2>4. QED
    BY <2>2, <2>3 DEF CalledBy
<1>12. ASSUME NEW j \in 1 .. (l + 1), NEW k \in 1 .. (l + 1), j < k PROVE s2[k].node < s2[j].node
  <2>1. j \in 1 .. l /\ s2[j] = st[j]
    BY <1>4, <1>12
  <2>2. CASE k = l + 1
    BY <1>4, <1>8, <2>1, <2>2
  <2>3. CASE k # l + 1
    <3>1. k \in 1 .. l /\ s2[k] = st[k]
      BY <1>4, <2>3
    <3>2. QED
      BY <1>6, <1>12, <2>1, <3>1
  <2>4. QED
    BY <2>2, <2>3
<1>13. QED
  BY <1>3, <1>4, <1>9, <1>10, <1>11, <1>12 DEF StackOK

\* The call on top returns; the node that was called and the caller change.
LEMMA StackPop ==
  ASSUME NEW p, IsPlan(p), NEW nd, NEW st, StackOK(p, nd, st), st # <<>>,
         NEW f, f = st[Len(st)], NEW nd2,
         \A x \in DOMAIN p : x # f.node /\ x # f.consumer[1] => nd2[x] = nd[x],
         f.consumer # Executor =>
           /\ nd2[f.consumer[1]].started = nd[f.consumer[1]].started
           /\ nd2[f.consumer[1]].skip = nd[f.consumer[1]].skip
           /\ nd2[f.consumer[1]].done = nd[f.consumer[1]].done
  PROVE  StackOK(p, nd2, SubSeq(st, 1, Len(st) - 1))
<1>1. PICK l \in Nat \ {0} : l = Len(st)
  BY StackTyped
<1>2. st \in Seq(FrameType(p)) /\ \A k \in 1 .. l : st[k].node \in DOMAIN p /\ st[k].node \in Nat
  BY <1>1, StackTyped
<1>3. PICK s2 : s2 = SubSeq(st, 1, l - 1)
  OBVIOUS
<1>4. s2 \in Seq(FrameType(p)) /\ Len(s2) = l - 1 /\ \A k \in 1 .. (l - 1) : s2[k] = st[k]
  BY <1>1, <1>2, <1>3
<1>5. /\ \A k \in 1 .. l : FrameOK(p, nd, st[k])
      /\ st[1].consumer = Executor /\ ~ st[1].skip
      /\ \A k \in 2 .. l : CalledBy(nd, st[k - 1], st[k])
      /\ \A j, k \in 1 .. l : j < k => st[k].node < st[j].node
  BY <1>1 DEF StackOK
<1>6. l # 1 => f.consumer[1] = st[l - 1].node
  <2> HAVE l # 1
  <2>1. l \in 2 .. l
    OBVIOUS
  <2>2. CalledBy(nd, st[l - 1], f)
    BY <1>1, <1>5, <2>1
  <2>3. QED
    BY <2>2 DEF CalledBy
<1>7. ASSUME NEW k \in 1 .. (l - 1) PROVE st[k].node # f.node
  <2>1. k \in 1 .. l /\ l \in 1 .. l /\ k < l
    OBVIOUS
  <2>2. st[l].node < st[k].node
    BY <1>5, <2>1
  <2>3. QED
    BY <1>1, <1>2, <2>1, <2>2
<1>8. ASSUME NEW k \in 1 .. (l - 1), k # l - 1 PROVE st[k].node # f.consumer[1]
  <2>1. k \in 1 .. l /\ l - 1 \in 1 .. l /\ k < l - 1 /\ l # 1
    BY <1>8
  <2>2. st[l - 1].node < st[k].node
    BY <1>5, <2>1
  <2>3. QED
    BY <1>2, <1>6, <2>1, <2>2
<1>9. l # 1 => f.consumer # Executor
  <2> HAVE l # 1
  <2>1. l - 1 \in 1 .. l
    OBVIOUS
  <2>2. f.consumer[1] # 0
    BY <1>2, <1>6, <2>1, PlanShape
  <2>3. QED
    BY <2>2 DEF Executor
<1>10. ASSUME NEW k \in 1 .. (l - 1) PROVE FrameOK(p, nd2, s2[k])
  <2>1. k \in 1 .. l /\ l # 1
    OBVIOUS
  <2>2. FrameOK(p, nd, st[k]) /\ st[k].node \in DOMAIN p /\ s2[k] = st[k]
    BY <1>2, <1>4, <1>5, <2>1
  <2>3. CASE k = l - 1
    BY <1>6, <1>9, <2>1, <2>2, <2>3 DEF FrameOK
  <2>4. CASE k # l - 1
    <3>1. nd2[st[k].node] = nd[st[k].node]
      BY <1>7, <1>8, <2>2, <2>4
    <3>2. QED
      BY <2>2, <3>1 DEF FrameOK
  <2>5. QED
    BY <2>3, <2>4
<1>11. s2 # <<>> => s2[1].consumer = Executor /\ ~ s2[1].skip
  <2> HAVE s2 # <<>>
  <2>1. Len(s2) # 0
    BY <1>4
  <2>2. 1 \in 1 .. (l - 1)
    BY <1>4, <2>1
  <2>3. s2[1] = st[1]
    BY <1>4, <2>2
  <2>4. QED
    BY <1>5, <2>3
<1>12. ASSUME NEW k \in 2 .. (l - 1) PROVE CalledBy(nd2, s2[k - 1], s2[k])
  <2>1. k - 1 \in 1 .. (l - 1) /\ k - 1 # l - 1 /\ k \in 2 .. l /\ k \in 1 .. (l - 1) /\ k - 1 \in 1 .. l
    OBVIOUS
  <2>2. nd2[st[k - 1].node] = nd[st[k - 1].node]
    BY <1>2, <1>7, <1>8, <2>1
  <2>3. CalledBy(nd, st[k - 1], st[k]) /\ s2[k - 1] = st[k - 1] /\ s2[k] = st[k]
    BY <1>4, <1>5, <2>1
  <2>4. QED
    BY <2>2, <2>3 DEF CalledBy
<1>13. ASSUME NEW j \in 1 .. (l - 1), NEW k \in 1 .. (l - 1), j < k PROVE s2[k].node < s2[j].node
  <2>1. j \in 1 .. l /\ k \in 1 .. l
    OBVIOUS
  <2>2. QED
    BY <1>4, <1>5, <1>13, <2>1
<1>14. QED
  BY <1>1, <1>3, <1>4, <1>10, <1>11, <1>12, <1>13 DEF StackOK
-----------------------------------------------------------------------------
(* What the stack says: the nodes that have been called, those whose       *)
(* coroutine has not given back control, and the consumers that wait.      *)

On(st) == {st[k].node : k \in 1 .. Len(st)}
Act(st) == {st[k].node : k \in {j \in 1 .. Len(st) : st[j].inside}}
Cal(st) == {st[k].consumer : k \in 1 .. Len(st)}

\* The facts about these sets that the invariant needs.
StackView(p, nd, st) ==
  /\ On(st) \subseteq DOMAIN p /\ Act(st) \subseteq On(st) /\ Cal(st) \subseteq Edges(p)
  /\ \A x \in On(st) : nd[x].started
  /\ \A x \in Act(st) : ~ nd[x].done
  /\ \A x \in On(st) : \E c \in Cal(st) : Src(p, c) = x
  /\ \A c \in Cal(st) :
       /\ Src(p, c) \in On(st)
       /\ IF c = Executor THEN nd[Src(p, c)].skip = FALSE
          ELSE /\ c[1] \in Act(st) /\ nd[c[1]].local.pc \in AskingPcs /\ c[2] = nd[c[1]].local.arg
               /\ nd[Src(p, c)].skip = (nd[c[1]].local.pc \in SkippingPcs)

\* Frame f is on top.
TopView(st, f) ==
  /\ f.node \in On(st) /\ f.consumer \in Cal(st)
  /\ \A x \in On(st) : f.node <= x
  /\ \A x \in On(st) : x # f.node => x \in Act(st)
  /\ f.inside <=> f.node \in Act(st)
  /\ \A c \in Cal(st) : c # Executor => f.node < c[1]

LEMMA OnCal ==
  ASSUME NEW st, NEW k \in 1 .. Len(st)
  PROVE  /\ st[k].node \in On(st) /\ st[k].consumer \in Cal(st)
         /\ st[k].inside => st[k].node \in Act(st)
BY DEF On, Act, Cal

LEMMA HasStackView ==
  ASSUME NEW p, IsPlan(p), NEW nd, NEW st, StackOK(p, nd, st)
  PROVE  StackView(p, nd, st)
<1>1. PICK l \in Nat : l = Len(st)
  BY StackTyped
<1>2. /\ st \in Seq(FrameType(p))
      /\ \A k \in 1 .. l : /\ st[k].node \in DOMAIN p /\ st[k].node \in Nat
                           /\ st[k].consumer \in Edges(p) /\ st[k].skip \in BOOLEAN
  BY <1>1, StackTyped
<1>3. /\ \A k \in 1 .. l : FrameOK(p, nd, st[k])
      /\ l # 0 => st[1].consumer = Executor /\ ~ st[1].skip
      /\ \A k \in 2 .. l : CalledBy(nd, st[k - 1], st[k])
  BY <1>1, <1>2 DEF StackOK
<1>4. On(st) \subseteq DOMAIN p /\ Act(st) \subseteq On(st) /\ Cal(st) \subseteq Edges(p)
  BY <1>1, <1>2 DEF On, Act, Cal
<1>5. \A x \in On(st) : nd[x].started /\ \E c \in Cal(st) : Src(p, c) = x
  <2> TAKE x \in On(st)
  <2>1. PICK k \in 1 .. l : st[k].node = x
    BY <1>1 DEF On
  <2>2. st[k].consumer \in Cal(st)
    BY <1>1, OnCal
  <2>3. QED
    BY <1>3, <2>1, <2>2 DEF FrameOK
<1>6. \A x \in Act(st) : ~ nd[x].done
  BY <1>1, <1>3 DEF Act, FrameOK
<1>7. ASSUME NEW c \in Cal(st)
      PROVE  /\ Src(p, c) \in On(st)
             /\ IF c = Executor THEN nd[Src(p, c)].skip = FALSE
                ELSE /\ c[1] \in Act(st) /\ nd[c[1]].local.pc \in AskingPcs /\ c[2] = nd[c[1]].local.arg
                     /\ nd[Src(p, c)].skip = (nd[c[1]].local.pc \in SkippingPcs)
  <2>1. PICK k \in 1 .. l : st[k].consumer = c
    BY <1>1 DEF Cal
  <2>2. st[k].node = Src(p, c) /\ nd[Src(p, c)].skip = st[k].skip
    BY <1>3, <2>1 DEF FrameOK
  <2>3. Src(p, c) \in On(st)
    BY <1>1, <2>1, <2>2, OnCal
  <2>4. CASE k = 1
    BY <1>2, <1>3, <2>1, <2>2, <2>3, <2>4
  <2>5. CASE k # 1
    <3>1. k \in 2 .. l /\ k - 1 \in 1 .. l
      BY <2>5
    <3>2. CalledBy(nd, st[k - 1], st[k])
      BY <1>3, <3>1
    <3>3. st[k - 1].inside /\ c = <<st[k - 1].node, nd[st[k - 1].node].local.arg>>
      BY <2>1, <3>2 DEF CalledBy
    <3>4. st[k - 1].node \in Act(st)
      BY <1>1, <3>1, <3>3, OnCal
    <3>5. c[1] = st[k - 1].node /\ c[2] = nd[c[1]].local.arg
      BY <3>3
    <3>6. c # Executor
      BY <1>2, <3>1, <3>5, PlanShape DEF Executor
    <3>7. QED
      BY <2>1, <2>2, <2>3, <3>2, <3>4, <3>5, <3>6 DEF CalledBy
  <2>6. QED
    BY <2>4, <2>5
<1>8. QED
  BY <1>4, <1>5, <1>6, <1>7 DEF StackView

LEMMA HasTopView ==
  ASSUME NEW p, IsPlan(p), NEW nd, NEW st, StackOK(p, nd, st), st # <<>>
  PROVE  TopView(st, st[Len(st)])
<1>1. PICK l \in Nat \ {0} : l = Len(st)
  BY StackTyped
<1>2. \A k \in 1 .. l : st[k].node \in DOMAIN p /\ st[k].node \in Nat /\ st[k].consumer \in Edges(p)
  BY <1>1, StackTyped
<1>3. /\ st[1].consumer = Executor
      /\ \A k \in 2 .. l : CalledBy(nd, st[k - 1], st[k])
      /\ \A j, k \in 1 .. l : j < k => st[k].node < st[j].node
  BY <1>1 DEF StackOK
<1>4. l \in 1 .. l
  OBVIOUS
<1>5. st[l].node \in On(st) /\ st[l].consumer \in Cal(st) /\ (st[l].inside => st[l].node \in Act(st))
  BY <1>1, <1>4, OnCal
<1>6. ASSUME NEW k \in 1 .. l, k # l
      PROVE  st[l].node < st[k].node /\ st[k].inside
  <2>1. k < l /\ k + 1 \in 2 .. l /\ (k + 1) - 1 = k
    BY <1>6
  <2>2. CalledBy(nd, st[k], st[k + 1])
    BY <1>3, <2>1
  <2>3. QED
    BY <1>3, <1>4, <2>1, <2>2 DEF CalledBy
<1>7. ASSUME NEW x \in On(st) PROVE st[l].node <= x /\ (x # st[l].node => x \in Act(st))
  <2>1. PICK k \in 1 .. l : st[k].node = x
    BY <1>1 DEF On
  <2>2. CASE k = l
    BY <1>2, <1>4, <2>1, <2>2
  <2>3. CASE k # l
    <3>1. st[l].node < x /\ x \in Act(st)
      BY <1>1, <1>6, <2>1, <2>3, OnCal
    <3>2. QED
      BY <1>2, <1>4, <2>1, <3>1
  <2>4. QED
    BY <2>2, <2>3
<1>8. st[l].node \in Act(st) => st[l].inside
  <2> HAVE st[l].node \in Act(st)
  <2>1. PICK k \in 1 .. l : st[k].inside /\ st[k].node = st[l].node
    BY <1>1 DEF Act
  <2>2. k = l
    BY <1>2, <1>4, <1>6, <2>1
  <2>3. QED
    BY <2>1, <2>2
<1>9. ASSUME NEW c \in Cal(st), c # Executor PROVE st[l].node < c[1]
  <2>1. PICK k \in 1 .. l : st[k].consumer = c
    BY <1>1 DEF Cal
  <2>2. k \in 2 .. l /\ k - 1 \in 1 .. l /\ k - 1 # l
    BY <1>3, <1>9, <2>1
  <2>3. CalledBy(nd, st[k - 1], st[k])
    BY <1>3, <2>2
  <2>4. c[1] = st[k - 1].node
    BY <2>1, <2>3 DEF CalledBy
  <2>5. QED
    BY <1>6, <2>2, <2>4
<1>10. QED
  BY <1>1, <1>5, <1>7, <1>8, <1>9 DEF TopView

\* How the sets change with the stack.
TopReplaced(st, st2, g) ==
  /\ On(st2) = On(st) /\ Cal(st2) = Cal(st) /\ st2 # <<>> /\ st2[Len(st2)] = g
  /\ \A x : x \in Act(st2) <=> IF g.inside THEN x \in Act(st) \/ x = g.node
                               ELSE x \in Act(st) /\ x # g.node

LEMMA SameViews ==
  ASSUME NEW p, IsPlan(p), NEW nd, NEW st, StackOK(p, nd, st), st # <<>>,
         NEW f, f = st[Len(st)], NEW g \in FrameType(p), g.node = f.node, g.consumer = f.consumer,
         NEW st2, st2 = [st EXCEPT ![Len(st)] = g]
  PROVE  TopReplaced(st, st2, g)
<1>1. PICK l \in Nat \ {0} : l = Len(st)
  BY StackTyped
<1>2. /\ st \in Seq(FrameType(p))
      /\ \A k \in 1 .. l : st[k].node \in DOMAIN p /\ st[k].node \in Nat /\ st[k] \in FrameType(p)
  BY <1>1, StackTyped, ElementOfSeq
<1>3. \A j, k \in 1 .. l : j < k => st[k].node < st[j].node
  BY <1>1 DEF StackOK
<1>5. f \in FrameType(p) /\ l \in 1 .. l
  BY <1>1, <1>2
<1>6. g.inside \in BOOLEAN
  BY DEF FrameType
<1>7. st2 \in Seq(FrameType(p)) /\ Len(st2) = l /\ st2[l] = g /\ \A k \in 1 .. l : k # l => st2[k] = st[k]
  BY <1>1, <1>2, <1>6
<1>8. \A k \in 1 .. l : st2[k].node = st[k].node /\ st2[k].consumer = st[k].consumer
  BY <1>1, <1>6, <1>7
<1>9. On(st2) = On(st) /\ Cal(st2) = Cal(st)
  BY <1>1, <1>7, <1>8 DEF On, Cal
<1>10. \A k \in 1 .. l : k # l => st[k].node # f.node
  <2> TAKE k \in 1 .. l
  <2> HAVE k # l
  <2>1. k < l
    OBVIOUS
  <2>2. st[l].node < st[k].node
    BY <1>3, <1>5, <2>1
  <2>3. QED
    BY <1>1, <1>2, <1>5, <2>2
<1>11. ASSUME NEW x
       PROVE  x \in Act(st2) <=> IF g.inside THEN x \in Act(st) \/ x = f.node ELSE x \in Act(st) /\ x # f.node
  <2>1. x \in Act(st2) <=> \E k \in 1 .. l : st2[k].inside /\ st[k].node = x
    BY <1>7, <1>8 DEF Act
  <2>2. x \in Act(st) <=> \E k \in 1 .. l : st[k].inside /\ st[k].node = x
    BY <1>1 DEF Act
  <2>3. f = st[l]
    BY <1>1
  <2>4. QED
    BY <1>5, <1>6, <1>7, <1>10, <2>1, <2>2, <2>3
<1>12. st2 # <<>>
  BY <1>7
<1>13. QED
  BY <1>7, <1>9, <1>11, <1>12 DEF TopReplaced

TopPushed(st, st2, g) ==
  /\ \A x : /\ x \in On(st2) <=> x \in On(st) \/ x = g.node
            /\ x \in Cal(st2) <=> x \in Cal(st) \/ x = g.consumer
            /\ x \in Act(st2) <=> x \in Act(st) \/ (g.inside /\ x = g.node)
  /\ st2 # <<>> /\ st2[Len(st2)] = g

LEMMA PushViews ==
  ASSUME NEW p, IsPlan(p), NEW nd, NEW st, StackOK(p, nd, st), NEW g \in FrameType(p), NEW st2,
         st2 = Append(st, g)
  PROVE  TopPushed(st, st2, g)
<1>1. PICK l \in Nat : l = Len(st)
  BY StackTyped
<1>2. st \in Seq(FrameType(p))
  BY <1>1, StackTyped
<1>3. st2 \in Seq(FrameType(p)) /\ Len(st2) = l + 1 /\ st2[l + 1] = g /\ \A k \in 1 .. l : st2[k] = st[k]
  BY <1>1, <1>2
<1>4. \A k : k \in 1 .. (l + 1) <=> k \in 1 .. l \/ k = l + 1
  OBVIOUS
<1>5. ASSUME NEW x
      PROVE  /\ x \in On(st2) <=> x \in On(st) \/ x = g.node
             /\ x \in Cal(st2) <=> x \in Cal(st) \/ x = g.consumer
             /\ x \in Act(st2) <=> x \in Act(st) \/ (g.inside /\ x = g.node)
  <2>1. /\ x \in On(st2) <=> \E k \in 1 .. (l + 1) : st2[k].node = x
        /\ x \in Cal(st2) <=> \E k \in 1 .. (l + 1) : st2[k].consumer = x
        /\ x \in Act(st2) <=> \E k \in 1 .. (l + 1) : st2[k].inside /\ st2[k].node = x
    BY <1>3 DEF On, Cal, Act
  <2>2. /\ x \in On(st) <=> \E k \in 1 .. l : st[k].node = x
        /\ x \in Cal(st) <=> \E k \in 1 .. l : st[k].consumer = x
        /\ x \in Act(st) <=> \E k \in 1 .. l : st[k].inside /\ st[k].node = x
    BY <1>1 DEF On, Cal, Act
  <2>3. QED
    BY <1>3, <1>4, <2>1, <2>2
<1>6. st2 # <<>>
  BY <1>3
<1>7. QED
  BY <1>3, <1>5, <1>6 DEF TopPushed

TopPopped(st, st2, f) ==
  /\ \A x : /\ x \in On(st2) <=> x \in On(st) /\ x # f.node
            /\ x \in Cal(st2) <=> x \in Cal(st) /\ x # f.consumer
            /\ x \in Act(st2) <=> x \in Act(st)
  /\ f.consumer = Executor <=> st2 = <<>>
  /\ f.consumer # Executor => st2[Len(st2)].node = f.consumer[1] /\ st2[Len(st2)].inside

LEMMA PopViews ==
  ASSUME NEW p, IsPlan(p), NEW nd, NEW st, StackOK(p, nd, st), st # <<>>,
         NEW f, f = st[Len(st)], ~ f.inside, NEW st2, st2 = SubSeq(st, 1, Len(st) - 1)
  PROVE  TopPopped(st, st2, f)
<1>1. PICK l \in Nat \ {0} : l = Len(st)
  BY StackTyped
<1>2. /\ st \in Seq(FrameType(p))
      /\ \A k \in 1 .. l : st[k].node \in DOMAIN p /\ st[k].node \in Nat
  BY <1>1, StackTyped
<1>3. st2 \in Seq(FrameType(p)) /\ Len(st2) = l - 1 /\ \A k \in 1 .. (l - 1) : st2[k] = st[k]
  BY <1>1, <1>2
<1>4. /\ st[1].consumer = Executor
      /\ \A k \in 2 .. l : CalledBy(nd, st[k - 1], st[k])
      /\ \A j, k \in 1 .. l : j < k => st[k].node < st[j].node
      /\ \A k \in 1 .. l : FrameOK(p, nd, st[k])
  BY <1>1 DEF StackOK
<1>5. \A k : k \in 1 .. l <=> k \in 1 .. (l - 1) \/ k = l
  OBVIOUS
<1>6. ASSUME NEW k \in 1 .. (l - 1) PROVE st[k].node # f.node /\ st[k].consumer # f.consumer
  <2>1. k \in 1 .. l /\ l \in 1 .. l /\ k < l
    OBVIOUS
  <2>2. st[l].node < st[k].node
    BY <1>4, <2>1
  <2>3. st[k].node # f.node
    BY <1>1, <1>2, <2>1, <2>2
  <2>4. st[k].node = Src(p, st[k].consumer) /\ f.node = Src(p, f.consumer)
    BY <1>1, <1>4, <2>1 DEF FrameOK
  <2>5. QED
    BY <2>3, <2>4
<1>7. ASSUME NEW x
      PROVE  /\ x \in On(st2) <=> x \in On(st) /\ x # f.node
             /\ x \in Cal(st2) <=> x \in Cal(st) /\ x # f.consumer
             /\ x \in Act(st2) <=> x \in Act(st)
  <2>1. /\ x \in On(st2) <=> \E k \in 1 .. (l - 1) : st2[k].node = x
        /\ x \in Cal(st2) <=> \E k \in 1 .. (l - 1) : st2[k].consumer = x
        /\ x \in Act(st2) <=> \E k \in 1 .. (l - 1) : st2[k].inside /\ st2[k].node = x
    BY <1>3 DEF On, Cal, Act
  <2>2. /\ x \in On(st) <=> \E k \in 1 .. l : st[k].node = x
        /\ x \in Cal(st) <=> \E k \in 1 .. l : st[k].consumer = x
        /\ x \in Act(st) <=> \E k \in 1 .. l : st[k].inside /\ st[k].node = x
    BY <1>1 DEF On, Cal, Act
  <2>3. f = st[l] /\ l \in 1 .. l
    BY <1>1
  <2>4. x \in On(st2) <=> x \in On(st) /\ x # f.node
    BY <1>3, <1>5, <1>6, <2>1, <2>2, <2>3
  <2>5. x \in Cal(st2) <=> x \in Cal(st) /\ x # f.consumer
    BY <1>3, <1>5, <1>6, <2>1, <2>2, <2>3
  <2>6. x \in Act(st2) <=> x \in Act(st)
    <3>1. ASSUME NEW k \in 1 .. l, st[k].inside, st[k].node = x
          PROVE  k \in 1 .. (l - 1) /\ st2[k].inside /\ st2[k].node = x
      <4>1. k # l
        BY <2>3, <3>1
      <4>2. k \in 1 .. (l - 1)
        BY <4>1
      <4>3. QED
        BY <1>3, <3>1, <4>2
    <3>2. ASSUME NEW k \in 1 .. (l - 1), st2[k].inside, st2[k].node = x
          PROVE  k \in 1 .. l /\ st[k].inside /\ st[k].node = x
      <4>1. k \in 1 .. l /\ st2[k] = st[k]
        BY <1>3, <1>5
      <4>2. QED
        BY <3>2, <4>1
    <3>3. QED
      BY <2>1, <2>2, <3>1, <3>2, Zenon
  <2>7. QED
    BY <2>4, <2>5, <2>6
<1>8. \A x : /\ x \in On(st2) <=> x \in On(st) /\ x # f.node
             /\ x \in Cal(st2) <=> x \in Cal(st) /\ x # f.consumer
             /\ x \in Act(st2) <=> x \in Act(st)
  BY <1>7
<1>9. CASE l = 1
  <2>1. st2 = <<>>
    BY <1>3, <1>9
  <2>2. QED
    BY <1>1, <1>4, <1>8, <1>9, <2>1 DEF TopPopped
<1>10. CASE l # 1
  <2>1. l \in 2 .. l /\ l - 1 \in 1 .. l /\ l - 1 \in 1 .. (l - 1)
    BY <1>10
  <2>2. CalledBy(nd, st[l - 1], f)
    BY <1>1, <1>4, <2>1
  <2>3. f.consumer[1] = st[l - 1].node /\ st[l - 1].inside
    BY <2>2 DEF CalledBy
  <2>4. f.consumer # Executor
    BY <1>2, <2>1, <2>3, PlanShape DEF Executor
  <2>5. st2 # <<>> /\ st2[Len(st2)] = st[l - 1]
    <3>1. Len(st2) = l - 1 /\ st2[l - 1] = st[l - 1]
      BY <1>3, <2>1
    <3>2. l - 1 # 0 /\ Len(<<>>) = 0
      BY <2>1
    <3>3. QED
      BY <3>1, <3>2
  <2>6. QED
    BY <1>8, <2>3, <2>4, <2>5 DEF TopPopped
<1>11. QED
  BY <1>9, <1>10
-----------------------------------------------------------------------------
(* Types are preserved.                                                    *)

TypeInv ==
  /\ plan.nodes \in Plans /\ plan.mask \in SUBSET (1 .. NumRows)
  /\ Shape(plan.nodes, node)
  /\ StackOK(plan.nodes, node, stack)
  /\ exec \in [pc : {"call", "check", "done"}, collected : Seq(0 .. NumRows), stopped : BOOLEAN,
               outcome : {"none", "ok", "thrown"}, reported : 0 .. Len(plan.nodes)]
  /\ stack # <<>> => exec.pc = "call"
  /\ last \in [node : 0 .. Len(plan.nodes), skip : BOOLEAN, rows : BOOLEAN]
  /\ env \in [failures : Nat, canceled : BOOLEAN, resets : Nat]

LEMMA ConstantTypes ==
  /\ NumRows \in Nat /\ BlockSize \in Nat \ {0} /\ MaxFailures \in Nat
  /\ CanCancel \in BOOLEAN /\ MaxResets \in Nat
  /\ \A p \in Plans : IsPlan(p)
BY ExecutionNodeAssumption

LEMMA NodeParts ==
  ASSUME NEW p, NEW n \in DOMAIN p, NEW x, NodeOK(p, n, x)
  PROVE  /\ x.started \in BOOLEAN /\ x.done \in BOOLEAN /\ x.skip \in BOOLEAN
         /\ x.exception \in Exceptions /\ x.queue \in Seq(BOOLEAN)
         /\ x.popped \in [ConsumersOf(p, n) -> Nat]
         /\ x.buffer \in Seq(0 .. NumRows) /\ Len(x.buffer) <= BlockSize
         /\ LocalOK(p, n, x.local)
BY DEF NodeOK, NodeType

LEMMA LocalParts ==
  ASSUME NEW p, NEW n, NEW o, LocalOK(p, n, o)
  PROVE  /\ o.pc \in AllPcs /\ o.arg \in 1 .. 2 /\ o.got \in [1 .. 2 -> BOOLEAN]
         /\ o.row \in 1 .. (BlockSize + 1) /\ o.outidx \in 0 .. (BlockSize - 1)
         /\ o.start \in 0 .. NumRows /\ o.skip_next_block \in BOOLEAN
BY DEF LocalOK, LocalType

\* A node after add_operator_output().
LEMMA NodeSunk ==
  ASSUME NEW p, NEW n \in DOMAIN p, NEW x, NodeOK(p, n, x), NEW o, LocalOK(p, n, o),
         NEW b \in Seq(0 .. NumRows), Len(b) <= BlockSize, NEW q \in Seq(BOOLEAN)
  PROVE  NodeOK(p, n, [x EXCEPT !.queue = q, !.buffer = b, !.local = o])
<1>1. x \in NodeType(p, n) /\ o \in LocalType
  BY DEF NodeOK, LocalOK
<1>2. PICK y : y = [x EXCEPT !.queue = q, !.buffer = b, !.local = o]
  OBVIOUS
<1>3. y \in NodeType(p, n) /\ y.buffer = b /\ y.local = o
  BY <1>1, <1>2 DEF NodeType
<1>4. QED
  BY <1>2, <1>3 DEF NodeOK

LEMMA NodeLocal ==
  ASSUME NEW p, NEW n \in DOMAIN p, NEW x, NodeOK(p, n, x), NEW o, LocalOK(p, n, o)
  PROVE  NodeOK(p, n, [x EXCEPT !.local = o])
<1>1. x \in NodeType(p, n) /\ o \in LocalType
  BY DEF NodeOK, LocalOK
<1>2. PICK y : y = [x EXCEPT !.local = o]
  OBVIOUS
<1>3. y \in NodeType(p, n) /\ y.buffer = x.buffer /\ y.local = o
  BY <1>1, <1>2 DEF NodeType
<1>4. QED
  BY <1>2, <1>3 DEF NodeOK

LEMMA NodeEnded ==
  ASSUME NEW p, NEW n \in DOMAIN p, NEW x, NodeOK(p, n, x), NEW why \in Exceptions
  PROVE  NodeOK(p, n, [x EXCEPT !.done = TRUE, !.exception = why])
<1>1. x \in NodeType(p, n) /\ Len(x.buffer) <= BlockSize /\ LocalOK(p, n, x.local)
  BY DEF NodeOK
<1>2. PICK y : y = [x EXCEPT !.done = TRUE, !.exception = why]
  OBVIOUS
<1>3. y \in NodeType(p, n) /\ y.buffer = x.buffer /\ y.local = x.local
  BY <1>1, <1>2 DEF NodeType
<1>4. QED
  BY <1>1, <1>2, <1>3 DEF NodeOK

LEMMA NewOperatorOK ==
  ASSUME NEW p, IsPlan(p), NEW n \in DOMAIN p
  PROVE  LocalOK(p, n, NewOperator(p[n].op))
<1>1. PICK o : o = NewOperator(p[n].op)
  OBVIOUS
<1>2. p[n].op \in {"source", "linear", "filter", "append"} /\ Arity(p, n) \in 0 .. 2
      /\ (p[n].op = "source" <=> Arity(p, n) = 0)
  BY PlanShape, PlanArity
<1>3. FirstPc(p[n].op) \in Pcs(p[n].op) /\ FirstPc(p[n].op) \in AllPcs
      /\ FirstPc(p[n].op) \notin {"test", "left", "skip_left", "first_right", "right"}
  BY <1>2 DEF FirstPc, Pcs, AllPcs
<1>4. <<FALSE, FALSE>> \in [1 .. 2 -> BOOLEAN]
  <2>1. PICK s : s = <<FALSE, FALSE>>
    OBVIOUS
  <2>2. s \in Seq(BOOLEAN) /\ Len(s) = 2
    BY <2>1
  <2>3. s \in [1 .. Len(s) -> BOOLEAN]
    BY <2>2, LenProperties
  <2>4. QED
    BY <2>1, <2>2, <2>3
<1>5. o \in LocalType /\ o.pc = FirstPc(p[n].op) /\ o.arg = 1
  <2>1. 1 \in 1 .. 2 /\ 1 \in 1 .. (BlockSize + 1) /\ 0 \in 0 .. (BlockSize - 1) /\ 0 \in 0 .. NumRows
    BY ConstantTypes
  <2>2. QED
    BY <1>1, <1>3, <1>4, <2>1 DEF NewOperator, LocalType
<1>6. p[n].op # "source" => 1 <= Arity(p, n)
  BY <1>2
<1>7. QED
  BY <1>1, <1>3, <1>5, <1>6 DEF LocalOK

\* A node that has been called.
Entered(nd, p, n, k) ==
  [IF nd[n].started THEN nd[n]
   ELSE [nd[n] EXCEPT !.started = TRUE, !.done = FALSE, !.queue = <<>>,
                      !.popped = [c \in DOMAIN @ |-> 0], !.buffer = <<>>,
                      !.local = NewOperator(p[n].op)]
   EXCEPT !.skip = k]

\* Node n was x and is y now.
IsEntered(p, n, k, x, y) ==
  /\ NodeOK(p, n, y)
  /\ y.started = TRUE /\ y.skip = k /\ y.exception = x.exception
  /\ x.started => /\ y.done = x.done /\ y.queue = x.queue /\ y.popped = x.popped
                  /\ y.buffer = x.buffer /\ y.local = x.local
  /\ ~ x.started => /\ y.done = FALSE /\ y.queue = <<>> /\ y.buffer = <<>>
                    /\ y.popped = [c \in ConsumersOf(p, n) |-> 0]
                    /\ y.local = NewOperator(p[n].op)

LEMMA NodeEntered ==
  ASSUME NEW p, IsPlan(p), NEW nd, Shape(p, nd), NEW n \in DOMAIN p, NEW k \in BOOLEAN
  PROVE  IsEntered(p, n, k, nd[n], Entered(nd, p, n, k))
<1>1. PICK x : x = nd[n]
  OBVIOUS
<1>2. NodeOK(p, n, x)
  BY <1>1 DEF Shape
<1>3. x \in NodeType(p, n) /\ Len(x.buffer) <= BlockSize /\ LocalOK(p, n, x.local)
  BY <1>2 DEF NodeOK
<1>4. PICK y : y = Entered(nd, p, n, k)
  OBVIOUS
<1>5. CASE x.started
  <2>1. y = [x EXCEPT !.skip = k]
    BY <1>1, <1>4, <1>5 DEF Entered
  <2>2. /\ y \in NodeType(p, n) /\ y.started = TRUE /\ y.skip = k /\ y.exception = x.exception
        /\ y.done = x.done /\ y.queue = x.queue /\ y.popped = x.popped
        /\ y.buffer = x.buffer /\ y.local = x.local
    BY <1>3, <1>5, <2>1 DEF NodeType
  <2>3. NodeOK(p, n, y)
    BY <1>3, <2>2 DEF NodeOK
  <2>4. QED
    BY <1>1, <1>4, <1>5, <2>2, <2>3 DEF IsEntered
<1>6. CASE ~ x.started
  <2>1. PICK o : o = NewOperator(p[n].op)
    OBVIOUS
  <2>2. LocalOK(p, n, o) /\ o \in LocalType
    BY <2>1, NewOperatorOK DEF LocalOK
  <2>3. PICK z : z = [c \in ConsumersOf(p, n) |-> 0]
    OBVIOUS
  <2>4. z \in [ConsumersOf(p, n) -> Nat]
    BY <2>3
  <2>5. x.popped \in [ConsumersOf(p, n) -> Nat]
    BY <1>3 DEF NodeType
  <2>6. y = [[x EXCEPT !.started = TRUE, !.done = FALSE, !.queue = <<>>, !.popped = z,
                       !.buffer = <<>>, !.local = o] EXCEPT !.skip = k]
    BY <1>1, <1>4, <1>6, <2>1, <2>3, <2>5 DEF Entered
  <2>7. <<>> \in Seq(BOOLEAN) /\ <<>> \in Seq(0 .. NumRows)
    OBVIOUS
  <2>8. /\ y \in NodeType(p, n) /\ y.started = TRUE /\ y.skip = k /\ y.exception = x.exception
        /\ y.done = FALSE /\ y.queue = <<>> /\ y.popped = z /\ y.buffer = <<>> /\ y.local = o
    BY <1>3, <2>2, <2>4, <2>6, <2>7 DEF NodeType
  <2>9. Len(y.buffer) <= BlockSize
    BY <2>8, ConstantTypes
  <2>10. NodeOK(p, n, y)
    BY <2>2, <2>8, <2>9 DEF NodeOK
  <2>11. QED
    BY <1>1, <1>4, <1>6, <2>1, <2>3, <2>8, <2>10 DEF IsEntered
<1>7. QED
  BY <1>5, <1>6
-----------------------------------------------------------------------------
(* The kinds of steps: nd and st become nd2 and st2.                       *)

TopOf(st) == st[Len(st)]
Inside(st, n) == st # <<>> /\ TopOf(st).node = n /\ TopOf(st).inside
Waits(st, n, c) == st # <<>> /\ TopOf(st).node = n /\ TopOf(st).consumer = c /\ ~ TopOf(st).inside
SetInside(st, b) == [st EXCEPT ![Len(st)] = [TopOf(st) EXCEPT !.inside = b]]

\* The operator of n goes on by itself.
LocalStep(nd, st, nd2, st2, n, b, o) ==
  /\ Inside(st, n)
  /\ nd2 = [nd EXCEPT ![n] = [nd[n] EXCEPT !.queue = nd[n].queue, !.buffer = b, !.local = o]]
  /\ st2 = st

\* It puts an element into its queue.
SinkStep(nd, st, nd2, st2, n, e, b, o) ==
  /\ Inside(st, n)
  /\ nd2 = [nd EXCEPT ![n] = [nd[n] EXCEPT !.queue = Append(nd[n].queue, e),
                                           !.buffer = b, !.local = o]]
  /\ st2 = SetInside(st, FALSE)

\* It returns or throws.
EndStep(nd, st, nd2, st2, n, why) ==
  /\ Inside(st, n)
  /\ nd2 = [nd EXCEPT ![n] = [nd[n] EXCEPT !.done = TRUE, !.exception = why]]
  /\ st2 = SetInside(st, FALSE)

\* It is resumed.
ResumeStep(nd, st, nd2, st2, n, c, o) ==
  /\ Waits(st, n, c)
  /\ nd[n].popped[c] = Len(nd[n].queue) /\ ~ nd[n].done
  /\ nd2 = [nd EXCEPT ![n] = [nd[n] EXCEPT !.local = o]]
  /\ st2 = SetInside(st, TRUE)

\* Consumer c calls the node it reads.
EnterStep(p, nd, st, nd2, st2, c, k) ==
  /\ c \in Edges(p) /\ k \in BOOLEAN
  /\ \/ c = Executor /\ st = <<>> /\ ~ k
     \/ /\ c # Executor /\ Inside(st, c[1]) /\ c[2] = nd[c[1]].local.arg
        /\ nd[c[1]].local.pc \in AskingPcs /\ k = (nd[c[1]].local.pc \in SkippingPcs)
  /\ nd2 = [nd EXCEPT ![Src(p, c)] = Entered(nd, p, Src(p, c), k)]
  /\ st2 = Append(st, [node |-> Src(p, c), consumer |-> c, skip |-> k,
                       inside |-> ~ nd[Src(p, c)].started])

\* The node that a consumer has popped from, or not.
Popped(nd, n, c) ==
  IF nd[n].popped[c] = Len(nd[n].queue) THEN nd[n]
  ELSE [nd[n] EXCEPT !.popped = [nd[n].popped EXCEPT ![c] = nd[n].popped[c] + 1]]

\* The call of consumer c returns; o are the local variables of the operator
\* that made it.
ReturnStep(p, nd, st, nd2, st2, n, c, o) ==
  /\ Waits(st, n, c)
  /\ nd[n].popped[c] = Len(nd[n].queue) => nd[n].done
  /\ IF c = Executor THEN nd2 = [nd EXCEPT ![n] = Popped(nd, n, c)]
     ELSE nd2 = [[nd EXCEPT ![n] = Popped(nd, n, c)] EXCEPT ![c[1]] = [nd[c[1]] EXCEPT !.local = o]]
  /\ st2 = SubSeq(st, 1, Len(st) - 1)

\* What is always known of the two.
Good0(p, nd, st) == IsPlan(p) /\ Shape(p, nd) /\ StackOK(p, nd, st)

LEMMA TopTyped ==
  ASSUME NEW p, NEW nd, NEW st, Good0(p, nd, st), st # <<>>
  PROVE  /\ TopOf(st).node \in DOMAIN p /\ TopOf(st).node = Src(p, TopOf(st).consumer)
         /\ TopOf(st).consumer \in Edges(p) /\ nd[TopOf(st).node].started
         /\ NodeOK(p, TopOf(st).node, nd[TopOf(st).node])
         /\ TopOf(st).inside => ~ nd[TopOf(st).node].done
         /\ TopOf(st).consumer \in ConsumersOf(p, TopOf(st).node)
         /\ TopOf(st) \in FrameType(p) /\ nd[TopOf(st).node].skip = TopOf(st).skip
<1>1. IsPlan(p) /\ Shape(p, nd) /\ StackOK(p, nd, st)
  BY DEF Good0
<1>2. st \in Seq(FrameType(p)) /\ Len(st) \in 1 .. Len(st)
  BY <1>1 DEF StackOK
<1>3. FrameOK(p, nd, TopOf(st)) /\ TopOf(st) \in FrameType(p)
  BY <1>1, <1>2, ElementOfSeq DEF StackOK, TopOf
<1>4. TopOf(st).node \in DOMAIN p /\ TopOf(st).consumer \in Edges(p)
  BY <1>3 DEF FrameType
<1>5. QED
  BY <1>1, <1>3, <1>4, ConsumersAreEdges DEF FrameOK, Shape

LEMMA StackTop ==
  ASSUME NEW p, NEW nd, NEW st, Good0(p, nd, st), st # <<>>, NEW n, n = TopOf(st).node, NEW nd2,
         \A x \in DOMAIN p : x # n => nd2[x] = nd[x],
         nd2[n].started, nd2[n].skip = nd[n].skip, NEW b \in BOOLEAN, b => ~ nd2[n].done
  PROVE  StackOK(p, nd2, SetInside(st, b))
<1>1. IsPlan(p) /\ StackOK(p, nd, st)
  BY DEF Good0
<1>2. PICK f : f = st[Len(st)]
  OBVIOUS
<1>3. n = f.node
  BY <1>2 DEF TopOf
<1>4. StackOK(p, nd2, [st EXCEPT ![Len(st)] = [f EXCEPT !.inside = b]])
  BY <1>1, <1>2, <1>3, StackSame
<1>5. QED
  BY <1>2, <1>4 DEF SetInside, TopOf

LEMMA SinkGood ==
  ASSUME NEW p, NEW nd, NEW st, Good0(p, nd, st), NEW n, NEW nd2, NEW st2, NEW o, LocalOK(p, n, o),
         NEW b \in Seq(0 .. NumRows), Len(b) <= BlockSize, NEW e \in BOOLEAN,
         SinkStep(nd, st, nd2, st2, n, e, b, o)
  PROVE  Good0(p, nd2, st2)
<1>1. IsPlan(p) /\ Shape(p, nd) /\ StackOK(p, nd, st) /\ Inside(st, n)
  BY DEF Good0, SinkStep
<1>2. n \in DOMAIN p /\ NodeOK(p, n, nd[n]) /\ nd[n].started /\ n = TopOf(st).node
  BY <1>1, TopTyped DEF Inside
<1>3. PICK x : x = [nd[n] EXCEPT !.queue = Append(nd[n].queue, e), !.buffer = b, !.local = o]
  OBVIOUS
<1>4. nd[n] \in NodeType(p, n)
  BY <1>2 DEF NodeOK
<1>5. nd[n].queue \in Seq(BOOLEAN)
  BY <1>2, NodeParts
<1>6. Append(nd[n].queue, e) \in Seq(BOOLEAN)
  BY <1>5
<1>7. NodeOK(p, n, x)
  BY <1>2, <1>3, <1>6, NodeSunk
<1>8. nd2 = [nd EXCEPT ![n] = x] /\ st2 = SetInside(st, FALSE)
  BY <1>3 DEF SinkStep
<1>9. Shape(p, nd2)
  BY <1>1, <1>2, <1>7, <1>8, ShapeUpdate
<1>10. nd2[n] = x /\ \A y \in DOMAIN p : y # n => nd2[y] = nd[y]
  BY <1>1, <1>2, <1>8 DEF Shape
<1>11. x.started = nd[n].started /\ x.skip = nd[n].skip
  BY <1>3, <1>4 DEF NodeType
<1>12. StackOK(p, nd2, st2)
  <2>1. PICK v \in BOOLEAN : v = FALSE
    OBVIOUS
  <2>2. StackOK(p, nd2, SetInside(st, v))
    BY <1>1, <1>2, <1>10, <1>11, <2>1, StackTop DEF Inside
  <2>3. QED
    BY <1>8, <2>1, <2>2
<1>13. QED
  BY <1>1, <1>9, <1>12 DEF Good0

LEMMA LocalGood ==
  ASSUME NEW p, NEW nd, NEW st, Good0(p, nd, st), NEW n, NEW nd2, NEW st2, NEW o, LocalOK(p, n, o),
         NEW b \in Seq(0 .. NumRows), Len(b) <= BlockSize,
         LocalStep(nd, st, nd2, st2, n, b, o)
  PROVE  Good0(p, nd2, st2)
<1>1. IsPlan(p) /\ Shape(p, nd) /\ StackOK(p, nd, st) /\ Inside(st, n)
  BY DEF Good0, LocalStep
<1>2. n \in DOMAIN p /\ NodeOK(p, n, nd[n]) /\ nd[n].started /\ ~ nd[n].done /\ n = TopOf(st).node
      /\ TopOf(st) \in FrameType(p) /\ TopOf(st).inside
  BY <1>1, TopTyped DEF Inside
<1>3. PICK x : x = [nd[n] EXCEPT !.queue = nd[n].queue, !.buffer = b, !.local = o]
  OBVIOUS
<1>4. nd[n] \in NodeType(p, n)
  BY <1>2 DEF NodeOK
<1>5. nd[n].queue \in Seq(BOOLEAN)
  BY <1>2, NodeParts
<1>7. NodeOK(p, n, x)
  BY <1>2, <1>3, <1>5, NodeSunk
<1>8. nd2 = [nd EXCEPT ![n] = x]
  BY <1>3 DEF LocalStep
<1>9. Shape(p, nd2)
  BY <1>1, <1>2, <1>7, <1>8, ShapeUpdate
<1>10. nd2[n] = x /\ \A y \in DOMAIN p : y # n => nd2[y] = nd[y]
  BY <1>1, <1>2, <1>8 DEF Shape
<1>11. x.started = nd[n].started /\ x.skip = nd[n].skip /\ x.done = nd[n].done
  BY <1>3, <1>4 DEF NodeType
<1>12. StackOK(p, nd2, SetInside(st, TRUE))
  BY <1>1, <1>2, <1>10, <1>11, StackTop DEF Inside
<1>13. SetInside(st, TRUE) = st
  <2>1. [TopOf(st) EXCEPT !.inside = TRUE] = TopOf(st)
    BY <1>2 DEF FrameType
  <2>2. st \in Seq(FrameType(p)) /\ Len(st) \in DOMAIN st
    BY <1>1, StackTyped DEF Inside
  <2>3. [st EXCEPT ![Len(st)] = st[Len(st)]] = st
    BY <2>2
  <2>4. QED
    BY <2>1, <2>3 DEF SetInside, TopOf
<1>14. st2 = st
  BY DEF LocalStep
<1>15. QED
  BY <1>1, <1>9, <1>12, <1>13, <1>14 DEF Good0

LEMMA EndGood ==
  ASSUME NEW p, NEW nd, NEW st, Good0(p, nd, st), NEW n, NEW nd2, NEW st2, NEW why \in Exceptions,
         EndStep(nd, st, nd2, st2, n, why)
  PROVE  Good0(p, nd2, st2)
<1>1. IsPlan(p) /\ Shape(p, nd) /\ StackOK(p, nd, st) /\ Inside(st, n)
  BY DEF Good0, EndStep
<1>2. n \in DOMAIN p /\ NodeOK(p, n, nd[n]) /\ nd[n].started /\ n = TopOf(st).node
  BY <1>1, TopTyped DEF Inside
<1>3. PICK x : x = [nd[n] EXCEPT !.done = TRUE, !.exception = why]
  OBVIOUS
<1>4. nd[n] \in NodeType(p, n)
  BY <1>2 DEF NodeOK
<1>7. NodeOK(p, n, x)
  BY <1>2, <1>3, NodeEnded
<1>8. nd2 = [nd EXCEPT ![n] = x] /\ st2 = SetInside(st, FALSE)
  BY <1>3 DEF EndStep
<1>9. Shape(p, nd2)
  BY <1>1, <1>2, <1>7, <1>8, ShapeUpdate
<1>10. nd2[n] = x /\ \A y \in DOMAIN p : y # n => nd2[y] = nd[y]
  BY <1>1, <1>2, <1>8 DEF Shape
<1>11. x.started = nd[n].started /\ x.skip = nd[n].skip
  BY <1>3, <1>4 DEF NodeType
<1>12. StackOK(p, nd2, st2)
  <2>1. PICK v \in BOOLEAN : v = FALSE
    OBVIOUS
  <2>2. StackOK(p, nd2, SetInside(st, v))
    BY <1>1, <1>2, <1>10, <1>11, <2>1, StackTop DEF Inside
  <2>3. QED
    BY <1>8, <2>1, <2>2
<1>13. QED
  BY <1>1, <1>9, <1>12 DEF Good0

LEMMA ResumeGood ==
  ASSUME NEW p, NEW nd, NEW st, Good0(p, nd, st), NEW n, NEW c, NEW nd2, NEW st2,
         NEW o, LocalOK(p, n, o), ResumeStep(nd, st, nd2, st2, n, c, o)
  PROVE  Good0(p, nd2, st2)
<1>1. IsPlan(p) /\ Shape(p, nd) /\ StackOK(p, nd, st) /\ Waits(st, n, c)
  BY DEF Good0, ResumeStep
<1>2. n \in DOMAIN p /\ NodeOK(p, n, nd[n]) /\ nd[n].started /\ n = TopOf(st).node
  BY <1>1, TopTyped DEF Waits
<1>3. PICK x : x = [nd[n] EXCEPT !.local = o]
  OBVIOUS
<1>4. nd[n] \in NodeType(p, n)
  BY <1>2 DEF NodeOK
<1>7. NodeOK(p, n, x)
  BY <1>2, <1>3, NodeLocal
<1>8. nd2 = [nd EXCEPT ![n] = x] /\ st2 = SetInside(st, TRUE) /\ ~ nd[n].done
  BY <1>3 DEF ResumeStep
<1>9. Shape(p, nd2)
  BY <1>1, <1>2, <1>7, <1>8, ShapeUpdate
<1>10. nd2[n] = x /\ \A y \in DOMAIN p : y # n => nd2[y] = nd[y]
  BY <1>1, <1>2, <1>8 DEF Shape
<1>11. x.started = nd[n].started /\ x.skip = nd[n].skip /\ x.done = nd[n].done
  BY <1>3, <1>4 DEF NodeType
<1>12. StackOK(p, nd2, st2)
  BY <1>1, <1>2, <1>8, <1>10, <1>11, StackTop DEF Waits
<1>13. QED
  BY <1>1, <1>9, <1>12 DEF Good0

LEMMA EnterGood ==
  ASSUME NEW p, NEW nd, NEW st, Good0(p, nd, st), NEW c, NEW k, NEW nd2, NEW st2,
         EnterStep(p, nd, st, nd2, st2, c, k)
  PROVE  Good0(p, nd2, st2)
<1>1. IsPlan(p) /\ Shape(p, nd) /\ StackOK(p, nd, st) /\ c \in Edges(p) /\ k \in BOOLEAN
  BY DEF Good0, EnterStep
<1>2. PICK n \in DOMAIN p : n = Src(p, c)
  BY <1>1, EdgeShape
<1>3. PICK x : x = Entered(nd, p, n, k)
  OBVIOUS
<1>4. /\ NodeOK(p, n, x) /\ x.started /\ x.skip = k
      /\ ~ nd[n].started => ~ x.done
  <2>1. IsEntered(p, n, k, nd[n], x)
    BY <1>1, <1>3, NodeEntered
  <2>2. QED
    BY <2>1 DEF IsEntered
<1>5. PICK g : g = [node |-> n, consumer |-> c, skip |-> k, inside |-> ~ nd[n].started]
  OBVIOUS
<1>6. NodeOK(p, n, nd[n])
  BY <1>1 DEF Shape
<1>7. nd[n].started \in BOOLEAN
  BY <1>6, NodeParts
<1>8. /\ g \in FrameType(p) /\ g.node = n /\ g.consumer = c /\ g.skip = k
      /\ g.inside <=> ~ nd[n].started
  BY <1>1, <1>5, <1>7 DEF FrameType
<1>9. nd2 = [nd EXCEPT ![n] = x] /\ st2 = Append(st, g)
  BY <1>2, <1>3, <1>5 DEF EnterStep
<1>10. Shape(p, nd2)
  BY <1>1, <1>4, <1>9, ShapeUpdate
<1>11. nd2[n] = x /\ \A y \in DOMAIN p : y # n => nd2[y] = nd[y]
  BY <1>1, <1>9 DEF Shape
<1>12. FrameOK(p, nd2, g)
  BY <1>2, <1>4, <1>8, <1>11 DEF FrameOK
<1>13. st = <<>> => g.consumer = Executor /\ ~ g.skip
  BY <1>8 DEF EnterStep, Inside
<1>14. st # <<>> => CalledBy(nd, st[Len(st)], g) /\ g.node < st[Len(st)].node
  <2> HAVE st # <<>>
  <2>1. /\ c # Executor /\ Inside(st, c[1]) /\ c[2] = nd[c[1]].local.arg
        /\ nd[c[1]].local.pc \in AskingPcs /\ k = (nd[c[1]].local.pc \in SkippingPcs)
    BY DEF EnterStep
  <2>2. c = <<c[1], c[2]>> /\ n < c[1]
    BY <1>1, <1>2, <2>1, EdgeShape
  <2>3. QED
    BY <1>8, <2>1, <2>2 DEF CalledBy, Inside, TopOf
<1>15. StackOK(p, nd2, st2)
  BY <1>1, <1>8, <1>9, <1>11, <1>12, <1>13, <1>14, StackPush
<1>16. QED
  BY <1>1, <1>10, <1>15 DEF Good0

LEMMA NodePopped ==
  ASSUME NEW p, NEW nd, NEW n \in DOMAIN p, NodeOK(p, n, nd[n]), NEW c \in ConsumersOf(p, n)
  PROVE  /\ NodeOK(p, n, Popped(nd, n, c))
         /\ Popped(nd, n, c).started = nd[n].started /\ Popped(nd, n, c).done = nd[n].done
         /\ Popped(nd, n, c).skip = nd[n].skip /\ Popped(nd, n, c).exception = nd[n].exception
         /\ Popped(nd, n, c).queue = nd[n].queue /\ Popped(nd, n, c).buffer = nd[n].buffer
         /\ Popped(nd, n, c).local = nd[n].local
         /\ \A e \in ConsumersOf(p, n) :
              Popped(nd, n, c).popped[e] =
                IF e = c /\ nd[n].popped[c] # Len(nd[n].queue) THEN nd[n].popped[c] + 1
                ELSE nd[n].popped[e]
<1>1. nd[n] \in NodeType(p, n) /\ Len(nd[n].buffer) <= BlockSize /\ LocalOK(p, n, nd[n].local)
  BY DEF NodeOK
<1>2. CASE nd[n].popped[c] = Len(nd[n].queue)
  BY <1>2 DEF Popped
<1>3. CASE nd[n].popped[c] # Len(nd[n].queue)
  <2>1. nd[n].popped \in [ConsumersOf(p, n) -> Nat]
    BY <1>1 DEF NodeType
  <2>2. PICK z : z = [nd[n].popped EXCEPT ![c] = nd[n].popped[c] + 1]
    OBVIOUS
  <2>3. /\ z \in [ConsumersOf(p, n) -> Nat]
        /\ \A e \in ConsumersOf(p, n) : z[e] = IF e = c THEN nd[n].popped[c] + 1 ELSE nd[n].popped[e]
    BY <2>1, <2>2
  <2>4. PICK x : x = Popped(nd, n, c)
    OBVIOUS
  <2>5. x = [nd[n] EXCEPT !.popped = z]
    BY <1>3, <2>2, <2>4 DEF Popped
  <2>6. /\ x \in NodeType(p, n) /\ x.popped = z /\ x.started = nd[n].started /\ x.done = nd[n].done
        /\ x.skip = nd[n].skip /\ x.exception = nd[n].exception
        /\ x.queue = nd[n].queue /\ x.buffer = nd[n].buffer
        /\ x.local = nd[n].local
    BY <1>1, <2>3, <2>5 DEF NodeType
  <2>7. NodeOK(p, n, x)
    BY <1>1, <2>6 DEF NodeOK
  <2>8. QED
    BY <1>3, <2>3, <2>4, <2>6, <2>7
<1>4. QED
  BY <1>2, <1>3

LEMMA ReturnNodes ==
  ASSUME NEW p, NEW nd, NEW st, Good0(p, nd, st), NEW n, NEW c, NEW nd2, NEW st2, NEW o,
         ReturnStep(p, nd, st, nd2, st2, n, c, o)
  PROVE  /\ n \in DOMAIN p /\ c \in Edges(p) /\ n = Src(p, c) /\ c \in ConsumersOf(p, n)
         /\ NodeOK(p, n, nd[n]) /\ nd[n].started
         /\ nd2[n] = Popped(nd, n, c)
         /\ c # Executor => /\ c[1] \in DOMAIN p /\ n # c[1] /\ n < c[1]
                            /\ nd2[c[1]] = [nd[c[1]] EXCEPT !.local = o]
                            /\ nd[c[1]].started
         /\ \A x \in DOMAIN p : x # n /\ x # c[1] => nd2[x] = nd[x]
<1>1. IsPlan(p) /\ Shape(p, nd) /\ StackOK(p, nd, st) /\ Waits(st, n, c)
  BY DEF Good0, ReturnStep
<1>2. n \in DOMAIN p /\ NodeOK(p, n, nd[n]) /\ nd[n].started /\ n = Src(p, c)
      /\ c \in Edges(p) /\ c \in ConsumersOf(p, n) /\ c \in Cal(st)
  <2>1. TopView(st, TopOf(st))
    BY <1>1, HasTopView DEF Waits, TopOf
  <2>2. QED
    BY <1>1, <2>1, TopTyped DEF Waits, TopView
<1>3. c # Executor => c[1] \in DOMAIN p /\ n < c[1] /\ n \in Nat /\ nd[c[1]].started
  <2> HAVE c # Executor
  <2>1. StackView(p, nd, st)
    BY <1>1, HasStackView
  <2>2. c[1] \in On(st)
    BY <1>2, <2>1 DEF StackView
  <2>3. QED
    BY <1>1, <1>2, <2>1, <2>2, EdgeShape, PlanShape DEF StackView
<1>4. nd = [x \in DOMAIN p |-> nd[x]]
  BY <1>1 DEF Shape
<1>5. CASE c = Executor
  <2>1. nd2 = [nd EXCEPT ![n] = Popped(nd, n, c)]
    BY <1>5 DEF ReturnStep
  <2>2. QED
    BY <1>2, <1>4, <1>5, <2>1
<1>6. CASE c # Executor
  <2>1. nd2 = [[nd EXCEPT ![n] = Popped(nd, n, c)] EXCEPT ![c[1]] = [nd[c[1]] EXCEPT !.local = o]]
    BY <1>6 DEF ReturnStep
  <2>2. n # c[1]
    BY <1>3, <1>6
  <2>3. QED
    BY <1>2, <1>3, <1>4, <1>6, <2>1, <2>2
<1>7. QED
  BY <1>5, <1>6

LEMMA ReturnGood ==
  ASSUME NEW p, NEW nd, NEW st, Good0(p, nd, st), NEW n, NEW c, NEW nd2, NEW st2, NEW o,
         c # Executor => LocalOK(p, c[1], o), ReturnStep(p, nd, st, nd2, st2, n, c, o)
  PROVE  Good0(p, nd2, st2)
<1>1. IsPlan(p) /\ Shape(p, nd) /\ StackOK(p, nd, st) /\ Waits(st, n, c)
  BY DEF Good0, ReturnStep
<1>2. /\ n \in DOMAIN p /\ c \in Edges(p) /\ n = Src(p, c) /\ c \in ConsumersOf(p, n)
      /\ NodeOK(p, n, nd[n]) /\ nd[n].started
      /\ nd2[n] = Popped(nd, n, c)
      /\ c # Executor => /\ c[1] \in DOMAIN p /\ n # c[1] /\ n < c[1]
                         /\ nd2[c[1]] = [nd[c[1]] EXCEPT !.local = o]
                         /\ nd[c[1]].started
      /\ \A x \in DOMAIN p : x # n /\ x # c[1] => nd2[x] = nd[x]
  BY ReturnNodes
<1>3. NodeOK(p, n, nd2[n])
  BY <1>2, NodePopped
<1>4. c # Executor => /\ NodeOK(p, c[1], nd2[c[1]])
                      /\ nd2[c[1]].started = nd[c[1]].started
                      /\ nd2[c[1]].skip = nd[c[1]].skip
                      /\ nd2[c[1]].done = nd[c[1]].done
  <2> HAVE c # Executor
  <2>1. NodeOK(p, c[1], nd[c[1]])
    BY <1>1, <1>2 DEF Shape
  <2>2. nd[c[1]] \in NodeType(p, c[1])
    BY <2>1 DEF NodeOK
  <2>3. NodeOK(p, c[1], nd2[c[1]])
    BY <1>2, <2>1, NodeLocal
  <2>4. QED
    BY <1>2, <2>2, <2>3 DEF NodeType
<1>5. nd2 = [x \in DOMAIN p |-> nd2[x]]
  <2>1. nd = [x \in DOMAIN p |-> nd[x]]
    BY <1>1 DEF Shape
  <2>2. QED
    BY <2>1 DEF ReturnStep
<1>6. ASSUME NEW x \in DOMAIN p PROVE NodeOK(p, x, nd2[x])
  <2>1. CASE x = n
    BY <1>3, <2>1
  <2>2. CASE x # n /\ x = c[1] /\ c # Executor
    BY <1>4, <2>2
  <2>3. CASE x # n /\ x # c[1]
    BY <1>1, <1>2, <2>3 DEF Shape
  <2>4. CASE c = Executor
    <3>1. x # c[1]
      BY <1>1, <2>4, PlanShape DEF Executor
    <3>2. QED
      BY <2>1, <2>3, <3>1
  <2>5. QED
    BY <2>1, <2>2, <2>3, <2>4
<1>7. Shape(p, nd2)
  BY <1>5, <1>6 DEF Shape
<1>8. st2 = SubSeq(st, 1, Len(st) - 1)
  BY DEF ReturnStep
<1>9. StackOK(p, nd2, st2)
  BY <1>1, <1>2, <1>4, <1>8, StackPop DEF Waits, TopOf
<1>10. QED
  BY <1>1, <1>7, <1>9 DEF Good0
-----------------------------------------------------------------------------
(* The actions are steps of these kinds.                                   *)

\* What is assumed of the state before a step.
Typed == IsPlan(plan.nodes) /\ Good0(plan.nodes, node, stack)

LEMMA InCoroutineIs ==
  ASSUME NEW n, InCoroutine(n)
  PROVE  Inside(stack, n) /\ Outside = SetInside(stack, FALSE)
BY DEF InCoroutine, Inside, Running, Top, TopOf, Outside, SetTop, SetInside

LEMMA InsideTyped ==
  ASSUME NEW p, NEW nd, NEW st, Good0(p, nd, st), NEW n, Inside(st, n)
  PROVE  /\ n \in DOMAIN p /\ NodeOK(p, n, nd[n]) /\ nd[n] \in NodeType(p, n)
         /\ nd[n].started /\ ~ nd[n].done
         /\ LocalOK(p, n, nd[n].local) /\ st # <<>> /\ n = TopOf(st).node
<1>1. n \in DOMAIN p /\ NodeOK(p, n, nd[n]) /\ nd[n].started /\ ~ nd[n].done /\ st # <<>> /\ n = TopOf(st).node
  BY TopTyped DEF Inside
<1>2. nd[n].started \in BOOLEAN /\ nd[n].done \in BOOLEAN
  BY <1>1, NodeParts
<1>3. QED
  BY <1>1, <1>2 DEF NodeOK

LEMMA GotoKind ==
  ASSUME Typed, NEW n, InCoroutine(n), NEW o, Goto(n, o)
  PROVE  LocalStep(node, stack, node', stack', n, node[n].buffer, o)
<1>1. Inside(stack, n) /\ node[n] \in NodeType(plan.nodes, n)
  BY InCoroutineIs, InsideTyped DEF Typed
<1>2. [node[n] EXCEPT !.local = o] =
        [node[n] EXCEPT !.queue = node[n].queue, !.buffer = node[n].buffer, !.local = o]
  BY <1>1 DEF NodeType
<1>3. node' = [node EXCEPT ![n] = [node[n] EXCEPT !.local = o]] /\ stack' = stack
  BY DEF Goto
<1>4. QED
  BY <1>1, <1>2, <1>3 DEF LocalStep

LEMMA FillKind ==
  ASSUME Typed, NEW n, InCoroutine(n), NEW o, NEW b,
         node' = [node EXCEPT ![n].buffer = b, ![n].local = o], stack' = stack
  PROVE  LocalStep(node, stack, node', stack', n, b, o)
<1>1. Inside(stack, n) /\ node[n] \in NodeType(plan.nodes, n) /\ n \in DOMAIN plan.nodes
  BY InCoroutineIs, InsideTyped DEF Typed
<1>2. [[node[n] EXCEPT !.buffer = b] EXCEPT !.local = o] =
        [node[n] EXCEPT !.queue = node[n].queue, !.buffer = b, !.local = o]
  BY <1>1 DEF NodeType
<1>3. node = [x \in DOMAIN plan.nodes |-> node[x]]
  BY DEF Typed, Good0, Shape
<1>4. node' = [node EXCEPT ![n] = [[node[n] EXCEPT !.buffer = b] EXCEPT !.local = o]]
  BY <1>1, <1>3
<1>5. QED
  BY <1>1, <1>2, <1>4 DEF LocalStep

LEMMA SinkKind ==
  ASSUME Typed, NEW n, InCoroutine(n), NEW e, NEW b, NEW o, Sink(n, e, b, o)
  PROVE  SinkStep(node, stack, node', stack', n, e, b, o)
<1>1. Inside(stack, n) /\ n \in DOMAIN plan.nodes
  BY InCoroutineIs, InsideTyped DEF Typed
<1>2. node = [x \in DOMAIN plan.nodes |-> node[x]]
  BY DEF Typed, Good0, Shape
<1>3. node' = [node EXCEPT ![n].queue = Append(@, e), ![n].buffer = b, ![n].local = o]
  BY DEF Sink
<1>4. node' = [node EXCEPT ![n] = [node[n] EXCEPT !.queue = Append(node[n].queue, e),
                                                  !.buffer = b, !.local = o]]
  BY <1>1, <1>2, <1>3
<1>5. QED
  BY <1>1, <1>4, InCoroutineIs DEF SinkStep, Sink

LEMMA EndsKind ==
  ASSUME Typed, NEW n, InCoroutine(n), NEW why, Ends(n, why)
  PROVE  EndStep(node, stack, node', stack', n, why)
<1>1. Inside(stack, n) /\ n \in DOMAIN plan.nodes
  BY InCoroutineIs, InsideTyped DEF Typed
<1>2. node = [x \in DOMAIN plan.nodes |-> node[x]]
  BY DEF Typed, Good0, Shape
<1>3. node' = [node EXCEPT ![n].done = TRUE, ![n].exception = why]
  BY DEF Ends
<1>4. node' = [node EXCEPT ![n] = [node[n] EXCEPT !.done = TRUE, !.exception = why]]
  BY <1>1, <1>2, <1>3
<1>5. QED
  BY <1>1, <1>4, InCoroutineIs DEF EndStep, Ends

LEMMA EnterKind ==
  ASSUME Typed, NEW c \in Edges(plan.nodes), NEW k \in BOOLEAN, Enter(Src(plan.nodes, c), c, k),
         \/ c = Executor /\ stack = <<>> /\ ~ k
         \/ /\ c # Executor /\ InCoroutine(c[1]) /\ c[2] = node[c[1]].local.arg
            /\ node[c[1]].local.pc \in AskingPcs /\ k = (node[c[1]].local.pc \in SkippingPcs)
  PROVE  EnterStep(plan.nodes, node, stack, node', stack', c, k)
<1>1. PICK n : n = Src(plan.nodes, c)
  OBVIOUS
<1>2. /\ node' = [node EXCEPT ![n] = [IF node[n].started THEN node[n] ELSE Started(n) EXCEPT !.skip = k]]
      /\ stack' = Append(stack, [node |-> n, consumer |-> c, skip |-> k, inside |-> ~ node[n].started])
  BY <1>1 DEF Enter, SkipNextBlock
<1>3. [IF node[n].started THEN node[n] ELSE Started(n) EXCEPT !.skip = k] = Entered(node, plan.nodes, n, k)
  BY DEF Entered, Started, Op
<1>4. \/ c = Executor /\ stack = <<>> /\ ~ k
      \/ /\ c # Executor /\ Inside(stack, c[1]) /\ c[2] = node[c[1]].local.arg
         /\ node[c[1]].local.pc \in AskingPcs /\ k = (node[c[1]].local.pc \in SkippingPcs)
  BY InCoroutineIs
<1>5. QED
  BY <1>1, <1>2, <1>3, <1>4 DEF EnterStep

\* The operator of n asks for its input arg.
LEMMA CallKind ==
  ASSUME Typed, NEW n, InCoroutine(n), NEW i, NEW k \in BOOLEAN, CallInput(n, i, k),
         i = node[n].local.arg, node[n].local.pc \in AskingPcs,
         k = (node[n].local.pc \in SkippingPcs), plan.nodes[n].op # "source"
  PROVE  /\ UNCHANGED <<plan, exec, last, env>>
         /\ \/ env.canceled /\ EndStep(node, stack, node', stack', n, "canceled")
            \/ /\ ~ env.canceled /\ <<n, i>> \in Edges(plan.nodes) /\ <<n, i>> # Executor
               /\ EnterStep(plan.nodes, node, stack, node', stack', <<n, i>>, k)
<1>1. CASE env.canceled
  <2>1. Ends(n, "canceled") /\ UNCHANGED env
    BY <1>1 DEF CallInput
  <2>2. EndStep(node, stack, node', stack', n, "canceled")
    BY <2>1, EndsKind
  <2>3. QED
    BY <1>1, <2>1, <2>2 DEF Ends
<1>2. CASE ~ env.canceled
  <2>1. Enter(InputOf(n, i), <<n, i>>, k)
    BY <1>2 DEF CallInput
  <2>2. Inside(stack, n)
    BY InCoroutineIs
  <2>3. n \in DOMAIN plan.nodes /\ LocalOK(plan.nodes, n, node[n].local)
    BY <2>2, InsideTyped DEF Typed
  <2>4. i \in 1 .. Arity(plan.nodes, n)
    <3>1. i \in 1 .. 2 /\ i <= Arity(plan.nodes, n)
      BY <2>3 DEF LocalOK, LocalType
    <3>2. Arity(plan.nodes, n) \in Nat
      BY <2>3, PlanShape DEF Typed
    <3>3. QED
      BY <3>1, <3>2
  <2>5. PICK c : c = <<n, i>>
    OBVIOUS
  <2>6. c \in Edges(plan.nodes) /\ c # Executor /\ Src(plan.nodes, c) = InputOf(n, i) /\ c[1] = n /\ c[2] = i
    BY <2>3, <2>4, <2>5, IsEdge DEF Typed, InputOf
  <2>7. EnterStep(plan.nodes, node, stack, node', stack', c, k)
    BY <2>1, <2>5, <2>6, EnterKind
  <2>8. QED
    BY <1>2, <2>1, <2>5, <2>6, <2>7 DEF Enter
<1>3. QED
  BY <1>1, <1>2

\* What Received() makes of the local variables o of an operator.
ReceivedIs(p, m, rows, o, q) ==
  /\ LocalOK(p, m, q)
  /\ q.outidx = o.outidx /\ q.start = o.start /\ q.skip_next_block = o.skip_next_block
  /\ o.pc = "skip_left" => q.got = o.got
  /\ o.pc # "skip_left" => q.got = [o.got EXCEPT ![o.arg] = rows] /\ q.row = 1
  /\ p[m].op = "append" => q.pc = "copy" /\ q.arg = o.arg
  /\ p[m].op = "linear" /\ o.arg < Arity(p, m) => q.pc = o.pc /\ q.arg = o.arg + 1
  /\ p[m].op = "linear" /\ o.arg = Arity(p, m) =>
       q.arg = 1 /\ q.pc = IF o.pc = "get" THEN "apply" ELSE "fake"
  /\ o.pc = "first_left" => q.pc = "first_right"
  /\ o.pc = "first_right" => q.pc = "first"
  /\ o.pc = "right" => q.pc = "test"
  /\ o.pc = "left" => q.pc = "check"
  /\ o.pc = "skip_left" => q.pc = "right"
  /\ o.pc \in {"first_right", "left"} => q.arg = 1

NextIs(o, g, pc, arg, q) ==
  /\ q \in LocalType /\ q.pc = pc /\ q.arg = arg /\ q.row = 1 /\ q.got = g
  /\ q.outidx = o.outidx /\ q.start = o.start /\ q.skip_next_block = o.skip_next_block

LEMMA ReceivedKind ==
  ASSUME IsPlan(plan.nodes), NEW m \in DOMAIN plan.nodes, NEW rows \in BOOLEAN,
         LocalOK(plan.nodes, m, node[m].local), node[m].local.pc \in AskingPcs
  PROVE  ReceivedIs(plan.nodes, m, rows, node[m].local, Received(m, rows))
<1>1. PICK o : o = node[m].local
  OBVIOUS
<1>2. o \in LocalType /\ o.pc \in Pcs(plan.nodes[m].op) /\ o.pc \in AskingPcs
      /\ (plan.nodes[m].op # "source" => o.arg <= Arity(plan.nodes, m))
  BY <1>1 DEF LocalOK
<1>3. o.arg \in 1 .. 2 /\ o.got \in [1 .. 2 -> BOOLEAN] /\ o.pc \in AllPcs
  BY <1>2 DEF LocalType
<1>4. PICK g : g = [o.got EXCEPT ![o.arg] = rows]
  OBVIOUS
<1>5. g \in [1 .. 2 -> BOOLEAN]
  BY <1>3, <1>4
<1>6. /\ Arity(plan.nodes, m) \in 0 .. 2
      /\ plan.nodes[m].op \in {"source", "linear", "filter", "append"}
      /\ 1 \in 1 .. (BlockSize + 1)
  BY PlanShape, PlanArity, ConstantTypes
<1>7. ASSUME NEW pc \in AllPcs, NEW arg \in 1 .. 2
      PROVE  NextIs(o, g, pc, arg, [o EXCEPT !.got = g, !.pc = pc, !.arg = arg, !.row = 1])
  BY <1>2, <1>5, <1>6 DEF LocalType, NextIs
<1>8. [o EXCEPT !.got[o.arg] = rows] = [o EXCEPT !.got = g]
  BY <1>2, <1>4 DEF LocalType
<1>9. \A pc, arg : [o EXCEPT !.got[o.arg] = rows, !.pc = pc, !.arg = arg, !.row = 1]
                   = [o EXCEPT !.got = g, !.pc = pc, !.arg = arg, !.row = 1]
  BY <1>2, <1>4 DEF LocalType
<1>10. CASE plan.nodes[m].op = "append"
  <2>1. Received(m, rows) = [o EXCEPT !.got = g, !.pc = "copy", !.arg = o.arg, !.row = 1]
    BY <1>1, <1>9, <1>10 DEF Received, Op
  <2>2. o.pc = "get"
    BY <1>2, <1>10 DEF Pcs, AskingPcs
  <2>3. "copy" \in AllPcs
    BY DEF AllPcs
  <2>4. PICK q : q = Received(m, rows)
    OBVIOUS
  <2>5. NextIs(o, g, "copy", o.arg, q)
    <3>1. NextIs(o, g, "copy", o.arg, [o EXCEPT !.got = g, !.pc = "copy", !.arg = o.arg, !.row = 1])
      BY <1>3, <1>7, <2>3, Zenon
    <3>2. QED
      BY <2>1, <2>4, <3>1, Zenon
  <2>6. QED
    BY <1>1, <1>2, <1>3, <1>4, <1>10, <2>2, <2>4, <2>5 DEF ReceivedIs, LocalOK, Pcs, NextIs
<1>11. CASE plan.nodes[m].op = "linear"
  <2>1. o.pc \in {"get", "drain"}
    BY <1>2, <1>11 DEF Pcs, AskingPcs
  <2>2. CASE o.arg < Arity(plan.nodes, m)
    <3>1. Received(m, rows) = [o EXCEPT !.got = g, !.pc = o.pc, !.arg = o.arg + 1, !.row = 1]
      BY <1>1, <1>9, <1>11, <2>2 DEF Received, Op, num_inputs, Arity
    <3>2. o.arg + 1 \in 1 .. 2 /\ o.arg + 1 <= Arity(plan.nodes, m) /\ o.arg # Arity(plan.nodes, m)
      BY <1>3, <1>6, <2>2
    <3>3. PICK q : q = Received(m, rows)
      OBVIOUS
    <3>4. NextIs(o, g, o.pc, o.arg + 1, q)
      <4>1. NextIs(o, g, o.pc, o.arg + 1, [o EXCEPT !.got = g, !.pc = o.pc, !.arg = o.arg + 1, !.row = 1])
        BY <1>3, <1>7, <3>2, Zenon
      <4>2. QED
        BY <3>1, <3>3, <4>1, Zenon
    <3>5. QED
      BY <1>1, <1>2, <1>3, <1>4, <1>11, <2>1, <2>2, <3>2, <3>3, <3>4 DEF ReceivedIs, LocalOK, Pcs, NextIs
  <2>3. CASE ~ (o.arg < Arity(plan.nodes, m))
    <3>1. PICK pc : pc = IF o.pc = "get" THEN "apply" ELSE "fake"
      OBVIOUS
    <3>2. Received(m, rows) = [o EXCEPT !.got = g, !.pc = pc, !.arg = 1, !.row = 1]
      BY <1>1, <1>9, <1>11, <2>3, <3>1 DEF Received, Op, num_inputs, Arity
    <3>3. 1 <= Arity(plan.nodes, m) /\ pc \in AllPcs /\ pc \in {"apply", "fake"} /\ 1 \in 1 .. 2
      BY <1>2, <1>3, <1>6, <1>11, <3>1 DEF AllPcs
    <3>4. PICK q : q = Received(m, rows)
      OBVIOUS
    <3>5. NextIs(o, g, pc, 1, q)
      <4>1. NextIs(o, g, pc, 1, [o EXCEPT !.got = g, !.pc = pc, !.arg = 1, !.row = 1])
        BY <1>7, <3>3, Zenon
      <4>2. QED
        BY <3>2, <3>4, <4>1, Zenon
    <3>6. QED
      BY <1>1, <1>2, <1>3, <1>4, <1>11, <2>1, <2>3, <3>1, <3>3, <3>4, <3>5 DEF ReceivedIs, LocalOK, Pcs, NextIs
  <2>4. QED
    BY <2>2, <2>3
<1>12. CASE plan.nodes[m].op = "filter"
  <2>1. Arity(plan.nodes, m) = 2 /\ 1 \in 1 .. 2 /\ 2 \in 1 .. 2
    BY <1>12, PlanArity
  <2>2. \/ o.pc = "first_left" \/ o.pc = "first_right" \/ o.pc = "right" \/ o.pc = "left" \/ o.pc = "skip_left"
    BY <1>2, <1>12 DEF Pcs, AskingPcs
  <2>3. ASSUME NEW pc \in AllPcs, NEW arg \in 1 .. 2, o.pc # "skip_left",
               pc = CASE o.pc = "first_left" -> "first_right" [] o.pc = "first_right" -> "first"
                      [] o.pc = "right" -> "test" [] o.pc = "left" -> "check",
               arg = IF o.pc = "first_left" THEN 2 ELSE 1
        PROVE  ReceivedIs(plan.nodes, m, rows, node[m].local, Received(m, rows))
    <3>1. Received(m, rows) = [o EXCEPT !.got = g, !.pc = pc, !.arg = arg, !.row = 1]
      BY <1>1, <1>9, <1>12, <2>2, <2>3 DEF Received, Op
    <3>2. pc \in {"first_right", "first", "test", "check"} /\ (pc = "first_right" => arg = 2)
          /\ (pc = "test" => arg = 1) /\ (o.pc \in {"first_right", "left"} => arg = 1)
      BY <2>2, <2>3
    <3>3. PICK q : q = Received(m, rows)
      OBVIOUS
    <3>4. NextIs(o, g, pc, arg, q)
      <4>1. NextIs(o, g, pc, arg, [o EXCEPT !.got = g, !.pc = pc, !.arg = arg, !.row = 1])
        BY <1>7, <2>3, Zenon
      <4>2. QED
        BY <3>1, <3>3, <4>1, Zenon
    <3>5. QED
      BY <1>1, <1>2, <1>3, <1>4, <1>12, <2>1, <2>2, <2>3, <3>2, <3>3, <3>4 DEF ReceivedIs, LocalOK, Pcs, NextIs
  <2>4. CASE o.pc = "skip_left"
    <3>1. Received(m, rows) = [o EXCEPT !.pc = "right", !.arg = 2]
      BY <1>1, <1>12, <2>4 DEF Received, Op
    <3>2. "right" \in AllPcs
      BY DEF AllPcs
    <3>3. PICK q : q = [o EXCEPT !.pc = "right", !.arg = 2]
      OBVIOUS
    <3>4. /\ q \in LocalType /\ q.pc = "right" /\ q.arg = 2 /\ q.got = o.got
          /\ q.outidx = o.outidx /\ q.start = o.start /\ q.skip_next_block = o.skip_next_block
      BY <1>2, <2>1, <3>2, <3>3 DEF LocalType
    <3>5. QED
      BY <1>1, <1>12, <2>1, <2>4, <3>1, <3>3, <3>4 DEF ReceivedIs, LocalOK, Pcs
  <2>5. CASE o.pc # "skip_left"
    <3>1. PICK pc : pc = CASE o.pc = "first_left" -> "first_right" [] o.pc = "first_right" -> "first"
                           [] o.pc = "right" -> "test" [] o.pc = "left" -> "check"
      OBVIOUS
    <3>2. PICK arg : arg = IF o.pc = "first_left" THEN 2 ELSE 1
      OBVIOUS
    <3>3. pc \in AllPcs /\ arg \in 1 .. 2
      BY <2>1, <2>2, <2>5, <3>1, <3>2 DEF AllPcs
    <3>4. QED
      BY <2>3, <2>5, <3>1, <3>2, <3>3
  <2>6. QED
    BY <2>4, <2>5
<1>13. CASE plan.nodes[m].op = "source"
  BY <1>2, <1>13 DEF Pcs, AskingPcs
<1>14. QED
  BY <1>6, <1>10, <1>11, <1>12, <1>13

\* What AfterSink() makes of the local variables o.
AfterSinkIs(p, n, skip, o, q) ==
  /\ LocalOK(p, n, q)
  /\ q.got = o.got /\ q.row = o.row /\ q.outidx = o.outidx /\ q.start = o.start
  /\ p[n].op = "source" => q.pc = o.pc /\ q.skip_next_block = skip
  /\ p[n].op = "linear" => /\ q.pc = IF skip THEN "drain" ELSE "get"
                           /\ q.arg = 1
  /\ p[n].op \in {"filter", "append"} => q = o

LEMMA AfterSinkKind ==
  ASSUME IsPlan(plan.nodes), NEW n \in DOMAIN plan.nodes, NodeOK(plan.nodes, n, node[n])
  PROVE  AfterSinkIs(plan.nodes, n, node[n].skip, node[n].local, AfterSink(n))
<1>1. PICK o : o = node[n].local
  OBVIOUS
<1>2. node[n].skip \in BOOLEAN /\ LocalOK(plan.nodes, n, o)
  BY <1>1, NodeParts
<1>3. o \in LocalType /\ o.pc \in Pcs(plan.nodes[n].op)
  BY <1>2 DEF LocalOK
<1>4. PICK q : q = AfterSink(n)
  OBVIOUS
<1>5. plan.nodes[n].op \in {"source", "linear", "filter", "append"} /\ Arity(plan.nodes, n) \in 0 .. 2
      /\ (plan.nodes[n].op = "source" <=> Arity(plan.nodes, n) = 0)
  BY PlanShape, PlanArity
<1>6. CASE plan.nodes[n].op = "source"
  <2>1. q = [o EXCEPT !.skip_next_block = node[n].skip]
    BY <1>1, <1>4, <1>6 DEF AfterSink, Op
  <2>2. /\ q \in LocalType /\ q.pc = o.pc /\ q.arg = o.arg /\ q.got = o.got /\ q.row = o.row
        /\ q.outidx = o.outidx /\ q.start = o.start /\ q.skip_next_block = node[n].skip
    BY <1>2, <1>3, <2>1 DEF LocalType
  <2>3. LocalOK(plan.nodes, n, q)
    BY <1>2, <2>2 DEF LocalOK
  <2>4. QED
    BY <1>1, <1>4, <1>6, <2>2, <2>3 DEF AfterSinkIs
<1>7. CASE plan.nodes[n].op = "linear"
  <2>1. PICK pc : pc = IF node[n].skip THEN "drain" ELSE "get"
    OBVIOUS
  <2>2. q = [o EXCEPT !.pc = pc, !.arg = 1]
    BY <1>1, <1>4, <1>7, <2>1 DEF AfterSink, Op
  <2>3. pc \in AllPcs /\ pc \in Pcs(plan.nodes[n].op) /\ 1 \in 1 .. 2 /\ pc \in {"get", "drain"}
    BY <1>7, <2>1 DEF AllPcs, Pcs
  <2>4. /\ q \in LocalType /\ q.pc = pc /\ q.arg = 1 /\ q.got = o.got /\ q.row = o.row
        /\ q.outidx = o.outidx /\ q.start = o.start
    BY <1>3, <2>2, <2>3 DEF LocalType
  <2>5. 1 <= Arity(plan.nodes, n)
    BY <1>5, <1>7
  <2>6. LocalOK(plan.nodes, n, q)
    BY <2>3, <2>4, <2>5 DEF LocalOK
  <2>7. QED
    BY <1>1, <1>4, <1>7, <2>1, <2>4, <2>6 DEF AfterSinkIs
<1>8. CASE plan.nodes[n].op \in {"filter", "append"}
  <2>1. q = o
    BY <1>1, <1>4, <1>8 DEF AfterSink, Op
  <2>2. QED
    BY <1>1, <1>2, <1>4, <1>8, <2>1 DEF AfterSinkIs
<1>9. QED
  BY <1>5, <1>6, <1>7, <1>8

LEMMA ResumeKind ==
  ASSUME Typed, Resume
  PROVE  \E n \in DOMAIN plan.nodes, c \in Edges(plan.nodes) :
           /\ ResumeStep(node, stack, node', stack', n, c, AfterSink(n))
           /\ AfterSinkIs(plan.nodes, n, node[n].skip, node[n].local, AfterSink(n))
           /\ UNCHANGED <<plan, exec, last, env>>
<1>1. stack # <<>> /\ ~ Top.inside /\ Top = TopOf(stack)
  BY DEF Resume, Running, Top, TopOf
<1>2. PICK n : n = Top.node
  OBVIOUS
<1>3. PICK c : c = Top.consumer
  OBVIOUS
<1>4. n \in DOMAIN plan.nodes /\ c \in Edges(plan.nodes) /\ NodeOK(plan.nodes, n, node[n])
  BY <1>1, <1>2, <1>3, TopTyped DEF Typed
<1>5. AfterSinkIs(plan.nodes, n, node[n].skip, node[n].local, AfterSink(n))
  BY <1>4, AfterSinkKind DEF Typed
<1>6. Waits(stack, n, c)
  BY <1>1, <1>2, <1>3 DEF Waits
<1>7. /\ node[n].popped[c] = Len(node[n].queue) /\ ~ node[n].done
      /\ node' = [node EXCEPT ![n] = [node[n] EXCEPT !.local = AfterSink(n)]]
      /\ stack' = SetInside(stack, TRUE)
  BY <1>1, <1>2, <1>3 DEF Resume, IsEmpty, SetTop, SetInside
<1>8. ResumeStep(node, stack, node', stack', n, c, AfterSink(n))
  BY <1>6, <1>7 DEF ResumeStep
<1>9. QED
  BY <1>4, <1>5, <1>8 DEF Resume

\* What the call by consumer c on node n returns.
RowsReturned(nd, n, c) ==
  /\ nd[n].popped[c] # Len(nd[n].queue) /\ ~ nd[n].skip
  /\ nd[n].queue[nd[n].popped[c] + 1]

LEMMA ReturnKind ==
  ASSUME Typed, Return
  PROVE  \E n \in DOMAIN plan.nodes, c \in Edges(plan.nodes), rows \in BOOLEAN :
           /\ rows <=> RowsReturned(node, n, c)
           /\ ReturnStep(plan.nodes, node, stack, node', stack', n, c, Received(c[1], rows))
           /\ last' = [node |-> n, skip |-> node[n].skip, rows |-> rows]
           /\ c # Executor => exec' = exec
           /\ c = Executor => ExecutorReceives(rows)
           /\ UNCHANGED <<plan, env>>
<1>1. stack # <<>> /\ ~ Top.inside /\ Top = TopOf(stack)
  BY DEF Return, Running, Top, TopOf
<1>2. PICK n : n = Top.node
  OBVIOUS
<1>3. PICK c : c = Top.consumer
  OBVIOUS
<1>4. /\ n \in DOMAIN plan.nodes /\ c \in Edges(plan.nodes) /\ NodeOK(plan.nodes, n, node[n])
      /\ n = Src(plan.nodes, c) /\ node[n].skip = Top.skip
  BY <1>1, <1>2, <1>3, TopTyped DEF Typed
<1>5. PICK rows : rows = (~ IsEmpty(n, c) /\ ~ Top.skip /\ node[n].queue[node[n].popped[c] + 1])
  OBVIOUS
<1>6. rows \in BOOLEAN /\ (rows <=> RowsReturned(node, n, c))
  BY <1>4, <1>5 DEF IsEmpty, RowsReturned
<1>7. /\ IsEmpty(n, c) => node[n].done
      /\ stack' = SubSeq(stack, 1, Len(stack) - 1)
      /\ last' = [node |-> n, skip |-> Top.skip, rows |-> rows]
      /\ c = Executor => node' = Pop(n, c, Top.skip) /\ ExecutorReceives(rows)
      /\ c # Executor => /\ node' = [Pop(n, c, Top.skip) EXCEPT ![c[1]].local = Received(c[1], rows)]
                         /\ exec' = exec
      /\ UNCHANGED <<plan, env>>
  BY <1>2, <1>3, <1>5 DEF Return
<1>8. node = [x \in DOMAIN plan.nodes |-> node[x]]
  BY DEF Typed, Good0, Shape
<1>9. Pop(n, c, Top.skip) = [node EXCEPT ![n] = Popped(node, n, c)]
  <2>1. CASE IsEmpty(n, c)
    BY <1>4, <1>8, <2>1 DEF Pop, IsEmpty, Popped
  <2>2. CASE ~ IsEmpty(n, c)
    BY <2>2 DEF Pop, IsEmpty, Popped
  <2>3. QED
    BY <2>1, <2>2
<1>10. c # Executor => c[1] \in DOMAIN plan.nodes /\ c[1] # n
  <2> HAVE c # Executor
  <2>1. c[1] \in DOMAIN plan.nodes /\ n < c[1]
    BY <1>4, EdgeShape DEF Typed
  <2>2. n \in Nat
    BY <1>4, PlanShape DEF Typed
  <2>3. QED
    BY <2>1, <2>2
<1>11. c # Executor =>
         node' = [[node EXCEPT ![n] = Popped(node, n, c)] EXCEPT ![c[1]] =
                    [node[c[1]] EXCEPT !.local = Received(c[1], rows)]]
  <2> HAVE c # Executor
  <2>1. PICK y : y = [node EXCEPT ![n] = Popped(node, n, c)]
    OBVIOUS
  <2>2. y[c[1]] = node[c[1]]
    BY <1>8, <1>10, <2>1
  <2>3. node' = [y EXCEPT ![c[1]] = [y[c[1]] EXCEPT !.local = Received(c[1], rows)]]
    BY <1>7, <1>9, <2>1
  <2>4. QED
    BY <2>1, <2>2, <2>3
<1>12. Waits(stack, n, c)
  BY <1>1, <1>2, <1>3 DEF Waits
<1>13. ReturnStep(plan.nodes, node, stack, node', stack', n, c, Received(c[1], rows))
  BY <1>7, <1>9, <1>11, <1>12 DEF ReturnStep, IsEmpty
<1>14. QED
  BY <1>4, <1>6, <1>7, <1>13

\* The operator that made the call was at a call.
LEMMA CallerAsks ==
  ASSUME NEW p, NEW nd, NEW st, Good0(p, nd, st), NEW n, NEW c, Waits(st, n, c), c # Executor
  PROVE  /\ c[1] \in DOMAIN p /\ NodeOK(p, c[1], nd[c[1]]) /\ LocalOK(p, c[1], nd[c[1]].local)
         /\ nd[c[1]].local.pc \in AskingPcs /\ c[2] = nd[c[1]].local.arg
         /\ nd[n].skip = (nd[c[1]].local.pc \in SkippingPcs)
         /\ c = <<c[1], nd[c[1]].local.arg>> /\ nd[c[1]].started /\ ~ nd[c[1]].done
<1>1. IsPlan(p) /\ Shape(p, nd) /\ StackOK(p, nd, st)
  BY DEF Good0
<1>2. TopView(st, TopOf(st)) /\ StackView(p, nd, st)
  BY <1>1, HasTopView, HasStackView DEF Waits, TopOf
<1>3. c \in Cal(st) /\ c \in Edges(p) /\ n = Src(p, c)
  BY <1>2, TopTyped DEF TopView, Waits
<1>4. /\ c[1] \in Act(st) /\ nd[c[1]].local.pc \in AskingPcs /\ c[2] = nd[c[1]].local.arg
      /\ nd[n].skip = (nd[c[1]].local.pc \in SkippingPcs) /\ c[1] \in On(st)
  BY <1>2, <1>3 DEF StackView
<1>5. c[1] \in DOMAIN p /\ c = <<c[1], c[2]>>
  BY <1>1, <1>3, EdgeShape
<1>6. NodeOK(p, c[1], nd[c[1]])
  BY <1>1, <1>5 DEF Shape
<1>7. nd[c[1]].started /\ ~ nd[c[1]].done
  BY <1>2, <1>4 DEF StackView
<1>8. QED
  BY <1>4, <1>5, <1>6, <1>7, NodeParts

-----------------------------------------------------------------------------
(* Each action keeps the types.                                            *)

Untouched == UNCHANGED <<plan, exec, last>>

\* What a step of an operator must leave behind.
OperatorTyped ==
  /\ Untouched /\ Good0(plan.nodes, node', stack')
  /\ env' \in [failures : Nat, canceled : BOOLEAN, resets : Nat]
  /\ stack # <<>>

EnvTyped == env \in [failures : Nat, canceled : BOOLEAN, resets : Nat]

LEMMA EndsTyped ==
  ASSUME Typed, EnvTyped, NEW n, InCoroutine(n), NEW why \in Exceptions, Ends(n, why), env' = env
  PROVE  OperatorTyped
<1>1. EndStep(node, stack, node', stack', n, why)
  BY EndsKind
<1>2. Good0(plan.nodes, node', stack')
  BY <1>1, EndGood DEF Typed
<1>3. QED
  BY <1>2 DEF Ends, OperatorTyped, Untouched, EnvTyped, InCoroutine, Running

LEMMA GotoTyped ==
  ASSUME Typed, EnvTyped, NEW n, InCoroutine(n), NEW o, LocalOK(plan.nodes, n, o), Goto(n, o)
  PROVE  OperatorTyped
<1>1. LocalStep(node, stack, node', stack', n, node[n].buffer, o)
  BY GotoKind
<1>2. n \in DOMAIN plan.nodes /\ NodeOK(plan.nodes, n, node[n])
  BY InCoroutineIs, InsideTyped DEF Typed
<1>3. node[n].buffer \in Seq(0 .. NumRows) /\ Len(node[n].buffer) <= BlockSize
  BY <1>2, NodeParts
<1>4. Good0(plan.nodes, node', stack')
  BY <1>1, <1>3, LocalGood DEF Typed
<1>5. QED
  BY <1>4 DEF Goto, OperatorTyped, Untouched, EnvTyped, InCoroutine, Running

LEMMA SinkTyped ==
  ASSUME Typed, EnvTyped, NEW n, InCoroutine(n), NEW e \in BOOLEAN, NEW o, LocalOK(plan.nodes, n, o),
         NEW b \in Seq(0 .. NumRows), Len(b) <= BlockSize, Sink(n, e, b, o)
  PROVE  OperatorTyped
<1>1. SinkStep(node, stack, node', stack', n, e, b, o)
  BY SinkKind
<1>2. Good0(plan.nodes, node', stack')
  BY <1>1, SinkGood DEF Typed
<1>3. QED
  BY <1>2 DEF Sink, OperatorTyped, Untouched, EnvTyped, InCoroutine, Running

LEMMA FillTyped ==
  ASSUME Typed, EnvTyped, NEW n, InCoroutine(n), NEW o, LocalOK(plan.nodes, n, o),
         NEW b \in Seq(0 .. NumRows), Len(b) <= BlockSize,
         node' = [node EXCEPT ![n].buffer = b, ![n].local = o], stack' = stack,
         UNCHANGED <<plan, exec, last, env>>
  PROVE  OperatorTyped
<1>1. LocalStep(node, stack, node', stack', n, b, o)
  BY FillKind
<1>2. Good0(plan.nodes, node', stack')
  BY <1>1, LocalGood DEF Typed
<1>3. QED
  BY <1>2 DEF OperatorTyped, Untouched, EnvTyped, InCoroutine, Running

LEMMA CallTyped ==
  ASSUME Typed, EnvTyped, NEW n, InCoroutine(n), NEW i, NEW k \in BOOLEAN, CallInput(n, i, k),
         i = node[n].local.arg, node[n].local.pc \in AskingPcs,
         k = (node[n].local.pc \in SkippingPcs), plan.nodes[n].op # "source"
  PROVE  OperatorTyped
<1>1. /\ UNCHANGED <<plan, exec, last, env>>
      /\ \/ EndStep(node, stack, node', stack', n, "canceled")
         \/ EnterStep(plan.nodes, node, stack, node', stack', <<n, i>>, k)
  BY CallKind
<1>2. "canceled" \in Exceptions
  BY DEF Exceptions
<1>3. Good0(plan.nodes, node', stack')
  BY <1>1, <1>2, EndGood, EnterGood DEF Typed
<1>4. QED
  BY <1>1, <1>3 DEF OperatorTyped, Untouched, EnvTyped, InCoroutine, Running

\* At(n, op, pc): what is known.
LEMMA AtTyped ==
  ASSUME Typed, NEW n, NEW op, NEW pc, At(n, op, pc)
  PROVE  /\ InCoroutine(n) /\ Inside(stack, n) /\ n \in DOMAIN plan.nodes /\ NodeOK(plan.nodes, n, node[n])
         /\ LocalOK(plan.nodes, n, node[n].local) /\ node[n].local \in LocalType
         /\ plan.nodes[n].op = op /\ node[n].local.pc = pc
         /\ node[n].buffer \in Seq(0 .. NumRows) /\ Len(node[n].buffer) <= BlockSize
         /\ node[n].started /\ ~ node[n].done
<1>1. InCoroutine(n) /\ plan.nodes[n].op = op /\ node[n].local.pc = pc
  BY DEF At, Op
<1>2. /\ n \in DOMAIN plan.nodes /\ NodeOK(plan.nodes, n, node[n]) /\ Inside(stack, n)
      /\ node[n].started /\ ~ node[n].done
  <2>1. Inside(stack, n) /\ Good0(plan.nodes, node, stack)
    BY <1>1, InCoroutineIs DEF Typed
  <2>2. QED
    BY <2>1, InsideTyped
<1>3. QED
  BY <1>1, <1>2, NodeParts DEF LocalOK

\* A block is a short sequence of rows.
LEMMA BlockTyped ==
  ASSUME Typed, NEW n \in DOMAIN plan.nodes, NEW i \in 1 .. Arity(plan.nodes, n)
  PROVE  /\ InputOf(n, i) \in DOMAIN plan.nodes /\ InputOf(n, i) < n
         /\ Block(n, i) = node[InputOf(n, i)].buffer
         /\ Block(n, i) \in Seq(0 .. NumRows) /\ Len(Block(n, i)) <= BlockSize
<1>1. InputOf(n, i) \in DOMAIN plan.nodes /\ InputOf(n, i) < n
  BY PlanArity DEF InputOf, Typed
<1>2. NodeOK(plan.nodes, InputOf(n, i), node[InputOf(n, i)])
  BY <1>1 DEF Typed, Good0, Shape
<1>3. QED
  BY <1>1, <1>2, NodeParts DEF Block

LEMMA ResizeTyped ==
  ASSUME NEW b \in Seq(0 .. NumRows), NEW k \in Nat
  PROVE  /\ Resize(b, k) \in Seq(0 .. NumRows) /\ Len(Resize(b, k)) = k
         /\ \A j \in 1 .. k : Resize(b, k)[j] = RowAt(b, j)
<1>1. 0 \in 0 .. NumRows
  BY ConstantTypes
<1>2. ASSUME NEW j \in 1 .. k PROVE RowAt(b, j) \in 0 .. NumRows
  <2>1. DOMAIN b = 1 .. Len(b)
    OBVIOUS
  <2>2. \A x \in 1 .. Len(b) : b[x] \in 0 .. NumRows
    BY ElementOfSeq
  <2>3. QED
    BY <1>1, <2>1, <2>2 DEF RowAt
<1>3. PICK s : s = [j \in 1 .. k |-> RowAt(b, j)]
  OBVIOUS
<1>4. s \in Seq(0 .. NumRows)
  BY <1>2, <1>3
<1>5. Len(s) = k
  BY <1>3, <1>4
<1>6. QED
  BY <1>3, <1>4, <1>5 DEF Resize

LEMMA SetRowTyped ==
  ASSUME NEW b \in Seq(0 .. NumRows), NEW j \in 1 .. BlockSize, NEW row \in 0 .. NumRows
  PROVE  /\ SetRow(b, j, row) \in Seq(0 .. NumRows) /\ Len(SetRow(b, j, row)) = BlockSize
         /\ SetRow(b, j, row)[j] = row
         /\ \A x \in 1 .. BlockSize : x # j => SetRow(b, j, row)[x] = RowAt(b, x)
<1>1. BlockSize \in Nat
  BY ConstantTypes
<1>2. PICK s : s = Resize(b, BlockSize)
  OBVIOUS
<1>3. s \in Seq(0 .. NumRows) /\ Len(s) = BlockSize /\ \A x \in 1 .. BlockSize : s[x] = RowAt(b, x)
  BY <1>1, <1>2, ResizeTyped
<1>4. PICK t : t = [s EXCEPT ![j] = row]
  OBVIOUS
<1>5. t \in Seq(0 .. NumRows) /\ Len(t) = BlockSize /\ t[j] = row /\ \A x \in 1 .. BlockSize : x # j => t[x] = s[x]
  BY <1>1, <1>3, <1>4
<1>6. QED
  BY <1>2, <1>3, <1>4, <1>5 DEF SetRow

\* The end of the block that a source reads next.
SourceEnd(o) == IF o.start + BlockSize < NumRows THEN o.start + BlockSize ELSE NumRows

SourceBlock(x) ==
  IF x.local.skip_next_block THEN x.buffer
  ELSE [j \in 1 .. (SourceEnd(x.local) - x.local.start) |-> x.local.start + j]

LEMMA ReadTyped ==
  ASSUME Typed, NEW n \in DOMAIN plan.nodes, NEW o, o = node[n].local, o.start # NumRows,
         plan.nodes[n].op = "source"
  PROVE  /\ SourceBlock(node[n]) \in Seq(0 .. NumRows) /\ Len(SourceBlock(node[n])) <= BlockSize
         /\ LocalOK(plan.nodes, n, [o EXCEPT !.start = SourceEnd(o)])
         /\ SourceEnd(o) \in 0 .. NumRows /\ o.start < SourceEnd(o) /\ SourceEnd(o) - o.start <= BlockSize
<1>1. NodeOK(plan.nodes, n, node[n])
  BY DEF Typed, Good0, Shape
<1>2. LocalOK(plan.nodes, n, o) /\ node[n].buffer \in Seq(0 .. NumRows) /\ Len(node[n].buffer) <= BlockSize
  BY <1>1, NodeParts
<1>3. o.start \in 0 .. NumRows /\ o \in LocalType
  BY <1>2 DEF LocalOK, LocalType
<1>4. PICK s \in 0 .. NumRows : s = o.start
  BY <1>3
<1>5. PICK e : e = SourceEnd(o)
  OBVIOUS
<1>6. NumRows \in Nat /\ BlockSize \in Nat \ {0}
  BY ConstantTypes
<1>7. s # NumRows
  BY <1>4
<1>8. e = IF s + BlockSize < NumRows THEN s + BlockSize ELSE NumRows
  BY <1>4, <1>5 DEF SourceEnd
<1>9. e \in 0 .. NumRows /\ s < e /\ e - s <= BlockSize /\ e - s \in Nat
  BY <1>6, <1>7, <1>8
<1>10. PICK b : b = [j \in 1 .. (e - s) |-> s + j]
  OBVIOUS
<1>11. b \in Seq(0 .. NumRows) /\ Len(b) = e - s
  <2>1. \A j \in 1 .. (e - s) : s + j \in 0 .. NumRows
    BY <1>6, <1>9
  <2>2. b \in Seq(0 .. NumRows)
    BY <1>9, <1>10, <2>1
  <2>3. QED
    BY <1>9, <1>10, <2>2
<1>12. SourceBlock(node[n]) = IF o.skip_next_block THEN node[n].buffer ELSE b
  BY <1>4, <1>5, <1>10 DEF SourceBlock
<1>13. SourceBlock(node[n]) \in Seq(0 .. NumRows) /\ Len(SourceBlock(node[n])) <= BlockSize
  BY <1>2, <1>9, <1>11, <1>12
<1>14. LocalOK(plan.nodes, n, [o EXCEPT !.start = e])
  <2>1. PICK q : q = [o EXCEPT !.start = e]
    OBVIOUS
  <2>2. q \in LocalType /\ q.pc = o.pc /\ q.arg = o.arg
    BY <1>3, <1>9, <2>1 DEF LocalType
  <2>3. QED
    BY <1>2, <2>1, <2>2 DEF LocalOK
<1>15. QED
  BY <1>4, <1>5, <1>9, <1>13, <1>14

\* SourceStep is a step of these two kinds.
LEMMA SourceKinds ==
  ASSUME Typed, NEW n, SourceStep(n)
  PROVE  /\ At(n, "source", "read")
         /\ \/ /\ node[n].local.start # NumRows
               /\ Sink(n, TRUE, SourceBlock(node[n]),
                       [node[n].local EXCEPT !.start = SourceEnd(node[n].local)])
            \/ node[n].local.start = NumRows /\ Ends(n, "none") /\ UNCHANGED env
BY DEF SourceStep, Read, Emit, Finish, SourceBlock, SourceEnd

LEMMA SourceTyped ==
  ASSUME Typed, EnvTyped, NEW n, SourceStep(n)
  PROVE  OperatorTyped
<1>1. At(n, "source", "read")
  BY SourceKinds
<1>2. InCoroutine(n) /\ n \in DOMAIN plan.nodes /\ plan.nodes[n].op = "source"
  BY <1>1, AtTyped
<1>3. CASE node[n].local.start = NumRows /\ Ends(n, "none") /\ UNCHANGED env
  BY <1>2, <1>3, EndsTyped DEF Exceptions
<1>4. CASE /\ node[n].local.start # NumRows
           /\ Sink(n, TRUE, SourceBlock(node[n]),
                   [node[n].local EXCEPT !.start = SourceEnd(node[n].local)])
  <2>1. PICK b : b = SourceBlock(node[n])
    OBVIOUS
  <2>2. PICK o : o = [node[n].local EXCEPT !.start = SourceEnd(node[n].local)]
    OBVIOUS
  <2>3. b \in Seq(0 .. NumRows) /\ Len(b) <= BlockSize /\ LocalOK(plan.nodes, n, o)
    BY <1>2, <1>4, <2>1, <2>2, ReadTyped
  <2>4. Sink(n, TRUE, b, o) /\ TRUE \in BOOLEAN
    BY <1>4, <2>1, <2>2
  <2>5. QED
    BY <1>2, <2>3, <2>4, SinkTyped
<1>5. QED
  BY <1>3, <1>4, SourceKinds


LEMMA ApplyTyped ==
  ASSUME Typed, NEW n \in DOMAIN plan.nodes, plan.nodes[n].op = "linear"
  PROVE  /\ Apply(n) \in Seq(0 .. NumRows) /\ Len(Apply(n)) = Len(Block(n, 1))
         /\ Len(Apply(n)) <= BlockSize
<1>1. 1 \in 1 .. Arity(plan.nodes, n)
  BY PlanArity DEF Typed
<1>2. PICK b : b = Block(n, 1)
  OBVIOUS
<1>3. b \in Seq(0 .. NumRows) /\ Len(b) <= BlockSize
  BY <1>1, <1>2, BlockTyped
<1>4. DOMAIN b = 1 .. Len(b) /\ Len(b) \in Nat
  BY <1>3
<1>5. \A j \in 1 .. Len(b) : b[j] \in 0 .. NumRows
  BY <1>3, ElementOfSeq
<1>6. PICK s : s = Apply(n)
  OBVIOUS
<1>7. s = [j \in DOMAIN b |-> IF \A i \in 1 .. num_inputs(n) : RowAt(Block(n, i), j) = b[j]
                               THEN b[j] ELSE 0]
  BY <1>2, <1>6 DEF Apply
<1>8. s \in [1 .. Len(b) -> 0 .. NumRows]
  BY <1>4, <1>5, <1>7, ConstantTypes
<1>9. s \in Seq(0 .. NumRows) /\ Len(s) = Len(b)
  <2>1. PICK k \in Nat : k = Len(b)
    BY <1>4
  <2>2. s = [j \in 1 .. k |-> s[j]] /\ \A j \in 1 .. k : s[j] \in 0 .. NumRows
    BY <1>8, <2>1
  <2>3. s \in Seq(0 .. NumRows)
    <3>1. s \in [1 .. k -> 0 .. NumRows]
      BY <1>8, <2>1
    <3>2. QED
      BY <3>1, SeqDef
  <2>4. Len(s) = k
    BY <2>2, <2>3
  <2>5. QED
    BY <2>1, <2>3, <2>4
<1>10. QED
  BY <1>2, <1>3, <1>6, <1>9

LEMMA LinearCallKinds ==
  ASSUME Typed, NEW n, LinearCall(n)
  PROVE  \E k \in BOOLEAN : /\ At(n, "linear", IF k THEN "drain" ELSE "get")
                            /\ CallInput(n, node[n].local.arg, k)
BY DEF LinearCall

LEMMA LinearTyped ==
  ASSUME Typed, EnvTyped, NEW n, LinearCall(n) \/ LinearApply(n) \/ LinearSkipped(n)
  PROVE  OperatorTyped
<1>1. CASE LinearCall(n)
  <2>1. PICK k \in BOOLEAN : /\ At(n, "linear", IF k THEN "drain" ELSE "get")
                             /\ CallInput(n, node[n].local.arg, k)
    BY <1>1, LinearCallKinds
  <2>2. PICK pc : pc = IF k THEN "drain" ELSE "get"
    OBVIOUS
  <2>3. pc \in AskingPcs /\ k = (pc \in SkippingPcs)
    BY <2>2 DEF AskingPcs, SkippingPcs
  <2>4. InCoroutine(n) /\ node[n].local.pc = pc /\ plan.nodes[n].op = "linear"
    BY <2>1, <2>2, AtTyped
  <2>5. plan.nodes[n].op # "source"
    BY <2>4
  <2>6. QED
    BY <2>1, <2>3, <2>4, <2>5, CallTyped
<1>2. CASE LinearApply(n)
  <2>1. At(n, "linear", "apply")
    BY <1>2 DEF LinearApply
  <2>2. /\ InCoroutine(n) /\ plan.nodes[n].op = "linear" /\ n \in DOMAIN plan.nodes
        /\ LocalOK(plan.nodes, n, node[n].local)
    BY <2>1, AtTyped
  <2>3. \/ Ends(n, "none") /\ UNCHANGED env
        \/ Sink(n, TRUE, Apply(n), node[n].local)
        \/ Ends(n, "assert") /\ UNCHANGED env
    BY <1>2 DEF LinearApply, Finish, AssertFails, Emit
  <2>4. "none" \in Exceptions /\ "assert" \in Exceptions /\ TRUE \in BOOLEAN
    BY DEF Exceptions
  <2>5. Apply(n) \in Seq(0 .. NumRows) /\ Len(Apply(n)) <= BlockSize
    BY <2>2, ApplyTyped
  <2>6. QED
    BY <2>2, <2>3, <2>4, <2>5, EndsTyped, SinkTyped
<1>3. CASE LinearSkipped(n)
  <2>1. At(n, "linear", "fake") /\ Sink(n, FALSE, node[n].buffer, node[n].local) /\ FALSE \in BOOLEAN
    BY <1>3 DEF LinearSkipped
  <2>2. /\ InCoroutine(n) /\ LocalOK(plan.nodes, n, node[n].local)
        /\ node[n].buffer \in Seq(0 .. NumRows) /\ Len(node[n].buffer) <= BlockSize
    BY <2>1, AtTyped
  <2>3. QED
    BY <2>1, <2>2, SinkTyped
<1>4. QED
  BY <1>1, <1>2, <1>3

LEMMA FilterCallKinds ==
  ASSUME Typed, NEW n, FilterCall(n)
  PROVE  \E pc \in {"first_left", "first_right", "right", "left", "skip_left"}, k \in BOOLEAN :
            /\ At(n, "filter", pc) /\ k = (pc = "skip_left")
            /\ CallInput(n, node[n].local.arg, k)
<1>1. ASSUME NEW pc \in {"first_left", "first_right", "right", "left", "skip_left"},
             At(n, "filter", pc)
      PROVE  node[n].local.arg = IF pc \in {"first_right", "right"} THEN 2 ELSE 1
  BY <1>1, AtTyped DEF LocalOK
<1>2. QED
  BY <1>1 DEF FilterCall

LEMMA FilterCallTyped ==
  ASSUME Typed, EnvTyped, NEW n, FilterCall(n)
  PROVE  OperatorTyped
<1>1. PICK pc \in {"first_left", "first_right", "right", "left", "skip_left"}, k \in BOOLEAN :
            /\ At(n, "filter", pc) /\ k = (pc = "skip_left")
            /\ CallInput(n, node[n].local.arg, k)
  BY FilterCallKinds
<1>2. pc \in AskingPcs /\ k = (pc \in SkippingPcs)
  BY <1>1 DEF AskingPcs, SkippingPcs
<1>3. InCoroutine(n) /\ node[n].local.pc = pc /\ plan.nodes[n].op = "filter"
  BY <1>1, AtTyped
<1>4. plan.nodes[n].op # "source"
  BY <1>3
<1>5. QED
  BY <1>1, <1>2, <1>3, <1>4, CallTyped

\* The new program counter of an operator that is not a source.
LEMMA SetPcOK ==
  ASSUME NEW p, NEW n, NEW o, LocalOK(p, n, o), NEW pc \in Pcs(p[n].op), pc \in AllPcs,
         pc \in {"first_left", "test", "left", "skip_left"} => o.arg = 1,
         pc \in {"first_right", "right"} => o.arg = 2
  PROVE  LocalOK(p, n, [o EXCEPT !.pc = pc])
<1>1. o \in LocalType
  BY DEF LocalOK
<1>2. PICK q : q = [o EXCEPT !.pc = pc]
  OBVIOUS
<1>3. q \in LocalType /\ q.pc = pc /\ q.arg = o.arg
  BY <1>1, <1>2 DEF LocalType
<1>4. QED
  BY <1>2, <1>3 DEF LocalOK

LEMMA SetPcArgOK ==
  ASSUME NEW p, NEW n, NEW o, LocalOK(p, n, o), NEW pc \in Pcs(p[n].op), pc \in AllPcs,
         NEW arg \in 1 .. 2, p[n].op # "source" => arg <= Arity(p, n),
         pc \in {"first_left", "test", "left", "skip_left"} => arg = 1,
         pc \in {"first_right", "right"} => arg = 2
  PROVE  LocalOK(p, n, [o EXCEPT !.pc = pc, !.arg = arg])
<1>1. o \in LocalType
  BY DEF LocalOK
<1>2. PICK q : q = [o EXCEPT !.pc = pc, !.arg = arg]
  OBVIOUS
<1>3. q \in LocalType /\ q.pc = pc /\ q.arg = arg
  BY <1>1, <1>2 DEF LocalType
<1>4. QED
  BY <1>2, <1>3 DEF LocalOK

LEMMA SetPcRowOK ==
  ASSUME NEW p, NEW n, NEW o, LocalOK(p, n, o), NEW pc \in Pcs(p[n].op), pc \in AllPcs,
         pc \notin AskingPcs \cup {"test"}, NEW row \in 1 .. (BlockSize + 1), NEW out \in 0 .. (BlockSize - 1)
  PROVE  /\ LocalOK(p, n, [o EXCEPT !.pc = pc, !.row = row])
         /\ o.pc = pc => LocalOK(p, n, [o EXCEPT !.row = row])
         /\ o.pc = pc => LocalOK(p, n, [o EXCEPT !.row = row, !.outidx = out])
<1>1. o \in LocalType
  BY DEF LocalOK
<1>2. PICK q : q = [o EXCEPT !.pc = pc, !.row = row]
  OBVIOUS
<1>3. q \in LocalType /\ q.pc = pc /\ q.arg = o.arg
  BY <1>1, <1>2 DEF LocalType
<1>4. LocalOK(p, n, q)
  BY <1>3 DEF LocalOK, AskingPcs
<1>5. PICK s : s = [o EXCEPT !.row = row]
  OBVIOUS
<1>6. s \in LocalType /\ s.pc = o.pc /\ s.arg = o.arg
  BY <1>1, <1>5 DEF LocalType
<1>7. LocalOK(p, n, s)
  BY <1>6 DEF LocalOK
<1>8. PICK t : t = [o EXCEPT !.row = row, !.outidx = out]
  OBVIOUS
<1>9. t \in LocalType /\ t.pc = o.pc /\ t.arg = o.arg
  BY <1>1, <1>8 DEF LocalType
<1>10. LocalOK(p, n, t)
  BY <1>9 DEF LocalOK
<1>11. QED
  BY <1>2, <1>4, <1>5, <1>7, <1>8, <1>10

LEMMA FilterTopKinds ==
  ASSUME Typed, NEW n, FilterTop(n)
  PROVE  /\ At(n, "filter", "first") \/ At(n, "filter", "check")
         /\ \/ Gets(n) = {FALSE} /\ At(n, "filter", "first") /\ Ends(n, "none") /\ UNCHANGED env
            \/ /\ Gets(n) = {FALSE} /\ At(n, "filter", "check")
               /\ Goto(n, [node[n].local EXCEPT !.pc = "tail"])
            \/ /\ Gets(n) = {TRUE} /\ Len(Block(n, 1)) = Len(Block(n, 2))
               /\ Goto(n, [node[n].local EXCEPT !.pc = "rows", !.row = 1])
            \/ /\ Gets(n) # {FALSE}
               /\ ~ (Gets(n) = {TRUE} /\ Len(Block(n, 1)) = Len(Block(n, 2)))
               /\ Ends(n, "assert") /\ UNCHANGED env
<1>1. At(n, "filter", "first") \/ At(n, "filter", "check")
  BY DEF FilterTop
<1>2. node[n].local.pc = "first" => At(n, "filter", "first")
  BY <1>1 DEF At
<1>3. node[n].local.pc = "check" => At(n, "filter", "check")
  BY <1>1 DEF At
<1>4. node[n].local.pc \in {"first", "check"}
  BY <1>1 DEF At
<1>5. {TRUE} # {FALSE}
  OBVIOUS
<1>6. QED
  BY <1>1, <1>2, <1>3, <1>4, <1>5 DEF FilterTop, Finish, AssertFails

LEMMA FilterTopTyped ==
  ASSUME Typed, EnvTyped, NEW n, FilterTop(n)
  PROVE  OperatorTyped
<1>1. /\ InCoroutine(n) /\ LocalOK(plan.nodes, n, node[n].local) /\ plan.nodes[n].op = "filter"
  BY FilterTopKinds, AtTyped
<1>2. "none" \in Exceptions /\ "assert" \in Exceptions
  BY DEF Exceptions
<1>3. LocalOK(plan.nodes, n, [node[n].local EXCEPT !.pc = "tail"])
  <2>1. "tail" \in Pcs(plan.nodes[n].op) /\ "tail" \in AllPcs
    BY <1>1 DEF Pcs, AllPcs
  <2>2. QED
    BY <1>1, <2>1, SetPcOK
<1>4. LocalOK(plan.nodes, n, [node[n].local EXCEPT !.pc = "rows", !.row = 1])
  <2>1. "rows" \in Pcs(plan.nodes[n].op) /\ "rows" \in AllPcs /\ "rows" \notin AskingPcs \cup {"test"}
    BY <1>1 DEF Pcs, AllPcs, AskingPcs
  <2>2. 1 \in 1 .. (BlockSize + 1) /\ 0 \in 0 .. (BlockSize - 1)
    BY ConstantTypes
  <2>3. QED
    BY <1>1, <2>1, <2>2, SetPcRowOK
<1>5. \/ Ends(n, "none") /\ UNCHANGED env
      \/ Goto(n, [node[n].local EXCEPT !.pc = "tail"])
      \/ Goto(n, [node[n].local EXCEPT !.pc = "rows", !.row = 1])
      \/ Ends(n, "assert") /\ UNCHANGED env
  BY FilterTopKinds
<1>6. QED
  BY <1>1, <1>2, <1>3, <1>4, <1>5, EndsTyped, GotoTyped

\* The buffer after the next row of block b has been copied.
Filled(x, b) == SetRow(x.buffer, x.local.outidx + 1, b[x.local.row])

\* The three ways to go on after a row.
RowPassed(o) == [o EXCEPT !.row = o.row + 1]
RowEmitted(o) == [o EXCEPT !.row = o.row + 1, !.outidx = 0]
RowKept(o) == [o EXCEPT !.row = o.row + 1, !.outidx = o.outidx + 1]

LEMMA FilterRowKinds ==
  ASSUME Typed, NEW n, FilterRow(n)
  PROVE  /\ At(n, "filter", "rows")
         /\ \/ /\ node[n].local.row > Len(Block(n, 1))
               /\ Goto(n, [node[n].local EXCEPT !.pc = "right", !.arg = 2])
            \/ /\ ~ (node[n].local.row > Len(Block(n, 1)))
               /\ RowAt(Block(n, 2), node[n].local.row) \notin plan.mask
               /\ Goto(n, RowPassed(node[n].local))
            \/ /\ ~ (node[n].local.row > Len(Block(n, 1)))
               /\ RowAt(Block(n, 2), node[n].local.row) \in plan.mask
               /\ node[n].local.outidx + 1 = BlockSize
               /\ Sink(n, TRUE, Filled(node[n], Block(n, 1)), RowEmitted(node[n].local))
            \/ /\ ~ (node[n].local.row > Len(Block(n, 1)))
               /\ RowAt(Block(n, 2), node[n].local.row) \in plan.mask
               /\ node[n].local.outidx + 1 # BlockSize
               /\ node' = [node EXCEPT ![n].buffer = Filled(node[n], Block(n, 1)),
                                       ![n].local = RowKept(node[n].local)]
               /\ stack' = stack
               /\ UNCHANGED <<plan, exec, last, env>>
BY DEF FilterRow, Filled, RowPassed, RowEmitted, RowKept, Selects, Full, Emit

LEMMA AppendRowKinds ==
  ASSUME Typed, NEW n, AppendRow(n)
  PROVE  /\ At(n, "append", "copy")
         /\ \/ /\ ~ node[n].local.got[node[n].local.arg] /\ node[n].local.arg = 2
               /\ Goto(n, [node[n].local EXCEPT !.pc = "tail"])
            \/ /\ ~ node[n].local.got[node[n].local.arg] /\ node[n].local.arg # 2
               /\ Goto(n, [node[n].local EXCEPT !.pc = "get", !.arg = 2])
            \/ /\ node[n].local.got[node[n].local.arg]
               /\ node[n].local.row > Len(Block(n, node[n].local.arg))
               /\ Goto(n, [node[n].local EXCEPT !.pc = "get"])
            \/ /\ node[n].local.got[node[n].local.arg]
               /\ ~ (node[n].local.row > Len(Block(n, node[n].local.arg)))
               /\ node[n].local.outidx + 1 = BlockSize
               /\ Sink(n, TRUE, Filled(node[n], Block(n, node[n].local.arg)), RowEmitted(node[n].local))
            \/ /\ node[n].local.got[node[n].local.arg]
               /\ ~ (node[n].local.row > Len(Block(n, node[n].local.arg)))
               /\ node[n].local.outidx + 1 # BlockSize
               /\ node' = [node EXCEPT ![n].buffer = Filled(node[n], Block(n, node[n].local.arg)),
                                       ![n].local = RowKept(node[n].local)]
               /\ stack' = stack
               /\ UNCHANGED <<plan, exec, last, env>>
BY DEF AppendRow, Filled, RowPassed, RowEmitted, RowKept, Full, Emit

\* A row of a block is copied.
LEMMA RowTyped ==
  ASSUME Typed, NEW n \in DOMAIN plan.nodes, NEW b \in Seq(0 .. NumRows), Len(b) <= BlockSize,
         NEW o, o = node[n].local, ~ (o.row > Len(b)), o.pc \notin AskingPcs \cup {"test"}
  PROVE  /\ Filled(node[n], b) \in Seq(0 .. NumRows) /\ Len(Filled(node[n], b)) = BlockSize
         /\ o.row \in 1 .. Len(b) /\ b[o.row] \in 0 .. NumRows /\ o.outidx + 1 \in 1 .. BlockSize
         /\ LocalOK(plan.nodes, n, RowPassed(o)) /\ LocalOK(plan.nodes, n, RowEmitted(o))
         /\ o.outidx + 1 # BlockSize => LocalOK(plan.nodes, n, RowKept(o))
<1>1. NodeOK(plan.nodes, n, node[n])
  BY DEF Typed, Good0, Shape
<1>2. LocalOK(plan.nodes, n, o) /\ node[n].buffer \in Seq(0 .. NumRows)
  BY <1>1, NodeParts
<1>3. PICK r \in 1 .. (BlockSize + 1) : r = o.row
  BY <1>2, LocalParts
<1>4. PICK u \in 0 .. (BlockSize - 1) : u = o.outidx
  BY <1>2, LocalParts
<1>5. PICK l \in Nat : l = Len(b)
  OBVIOUS
<1>6. BlockSize \in Nat \ {0}
  BY ConstantTypes
<1>7. /\ r \in 1 .. l /\ u + 1 \in 1 .. BlockSize /\ r + 1 \in 1 .. (BlockSize + 1)
      /\ (u + 1 # BlockSize => u + 1 \in 0 .. (BlockSize - 1)) /\ 0 \in 0 .. (BlockSize - 1)
  <2>1. ~ (r > l) /\ l <= BlockSize
    BY <1>3, <1>5
  <2>2. r \in 1 .. l /\ r + 1 \in 1 .. (BlockSize + 1)
    BY <1>6, <2>1
  <2>3. u + 1 \in 1 .. BlockSize /\ (u + 1 # BlockSize => u + 1 \in 0 .. (BlockSize - 1))
    BY <1>6
  <2>4. QED
    BY <1>6, <2>2, <2>3
<1>8. b[r] \in 0 .. NumRows
  BY <1>5, <1>7, ElementOfSeq
<1>9. Filled(node[n], b) = SetRow(node[n].buffer, u + 1, b[r])
  BY <1>3, <1>4 DEF Filled
<1>10. Filled(node[n], b) \in Seq(0 .. NumRows) /\ Len(Filled(node[n], b)) = BlockSize
  BY <1>2, <1>7, <1>8, <1>9, SetRowTyped
<1>11. o.pc \in Pcs(plan.nodes[n].op) /\ o.pc \in AllPcs
  BY <1>2 DEF LocalOK, LocalType
<1>12. \A out \in 0 .. (BlockSize - 1) :
          /\ LocalOK(plan.nodes, n, [o EXCEPT !.row = r + 1])
          /\ LocalOK(plan.nodes, n, [o EXCEPT !.row = r + 1, !.outidx = out])
  BY <1>2, <1>7, <1>11, SetPcRowOK
<1>13. QED
  BY <1>3, <1>4, <1>5, <1>7, <1>8, <1>10, <1>12 DEF RowPassed, RowEmitted, RowKept

LEMMA FilterRowTyped ==
  ASSUME Typed, EnvTyped, NEW n, FilterRow(n)
  PROVE  OperatorTyped
<1>1. At(n, "filter", "rows")
  BY FilterRowKinds
<1>2. /\ InCoroutine(n) /\ LocalOK(plan.nodes, n, node[n].local) /\ plan.nodes[n].op = "filter"
      /\ n \in DOMAIN plan.nodes /\ node[n].local.pc = "rows"
  BY <1>1, AtTyped
<1>3. Arity(plan.nodes, n) = 2
  BY <1>2, PlanArity DEF Typed
<1>4. PICK b : b = Block(n, 1)
  OBVIOUS
<1>5. b \in Seq(0 .. NumRows) /\ Len(b) <= BlockSize
  BY <1>2, <1>3, <1>4, BlockTyped
<1>6. node[n].local.pc \notin AskingPcs \cup {"test"}
  BY <1>2 DEF AskingPcs
<1>7. CASE Goto(n, [node[n].local EXCEPT !.pc = "right", !.arg = 2])
  <2>1. /\ "right" \in Pcs(plan.nodes[n].op) /\ "right" \in AllPcs /\ 2 \in 1 .. 2
        /\ "right" \notin {"first_left", "test", "left", "skip_left"} /\ 2 <= Arity(plan.nodes, n)
    BY <1>2, <1>3 DEF Pcs, AllPcs
  <2>2. LocalOK(plan.nodes, n, [node[n].local EXCEPT !.pc = "right", !.arg = 2])
    BY <1>2, <1>3, <2>1, SetPcArgOK
  <2>3. QED
    BY <1>2, <1>7, <2>2, GotoTyped
<1>8. CASE ~ (node[n].local.row > Len(b))
  <2>1. /\ Filled(node[n], b) \in Seq(0 .. NumRows) /\ Len(Filled(node[n], b)) = BlockSize
        /\ LocalOK(plan.nodes, n, RowPassed(node[n].local)) /\ LocalOK(plan.nodes, n, RowEmitted(node[n].local))
        /\ node[n].local.outidx + 1 # BlockSize => LocalOK(plan.nodes, n, RowKept(node[n].local))
    BY <1>2, <1>5, <1>6, <1>8, RowTyped
  <2>2. Len(Filled(node[n], b)) <= BlockSize /\ TRUE \in BOOLEAN
    BY <2>1, ConstantTypes
  <2>3. CASE Goto(n, RowPassed(node[n].local))
    BY <1>2, <2>1, <2>3, GotoTyped
  <2>4. CASE Sink(n, TRUE, Filled(node[n], b), RowEmitted(node[n].local))
    BY <1>2, <2>1, <2>2, <2>4, SinkTyped
  <2>5. CASE /\ node[n].local.outidx + 1 # BlockSize
             /\ node' = [node EXCEPT ![n].buffer = Filled(node[n], b), ![n].local = RowKept(node[n].local)]
             /\ stack' = stack
             /\ UNCHANGED <<plan, exec, last, env>>
    BY <1>2, <2>1, <2>2, <2>5, FillTyped
  <2>6. QED
    BY <1>4, <1>7, <1>8, <2>3, <2>4, <2>5, FilterRowKinds
<1>9. QED
  BY <1>4, <1>7, <1>8, FilterRowKinds

LEMMA FilterTestTyped ==
  ASSUME Typed, EnvTyped, NEW n, FilterTest(n)
  PROVE  OperatorTyped
<1>1. At(n, "filter", "test")
  BY DEF FilterTest
<1>2. PICK pc : pc = IF SkipsLeft(n) THEN "skip_left" ELSE "left"
  OBVIOUS
<1>3. Goto(n, [node[n].local EXCEPT !.pc = pc])
  BY <1>2 DEF FilterTest
<1>4. /\ InCoroutine(n) /\ LocalOK(plan.nodes, n, node[n].local) /\ plan.nodes[n].op = "filter"
      /\ n \in DOMAIN plan.nodes /\ node[n].local.pc = "test" /\ node[n].local.arg = 1
  BY <1>1, AtTyped DEF LocalOK
<1>5. pc \in Pcs(plan.nodes[n].op) /\ pc \in AllPcs /\ pc \notin {"first_right", "right"}
  BY <1>2, <1>4 DEF Pcs, AllPcs
<1>6. LocalOK(plan.nodes, n, [node[n].local EXCEPT !.pc = pc])
  BY <1>4, <1>5, SetPcOK
<1>7. QED
  BY <1>3, <1>4, <1>6, GotoTyped


LEMMA AppendTyped ==
  ASSUME Typed, EnvTyped, NEW n, AppendCall(n) \/ AppendRow(n)
  PROVE  OperatorTyped
<1>1. CASE AppendCall(n)
  <2>1. At(n, "append", "get") /\ CallInput(n, node[n].local.arg, FALSE)
    BY <1>1 DEF AppendCall
  <2>2. InCoroutine(n) /\ node[n].local.pc = "get" /\ plan.nodes[n].op = "append"
    BY <2>1, AtTyped
  <2>3. PICK k \in BOOLEAN : k = FALSE
    OBVIOUS
  <2>4. node[n].local.pc \in AskingPcs /\ k = (node[n].local.pc \in SkippingPcs) /\ plan.nodes[n].op # "source"
    BY <2>2, <2>3 DEF AskingPcs, SkippingPcs
  <2>5. QED
    BY <2>1, <2>2, <2>3, <2>4, CallTyped
<1>2. CASE AppendRow(n)
  <2>1. At(n, "append", "copy")
    BY <1>2, AppendRowKinds
  <2>2. /\ InCoroutine(n) /\ LocalOK(plan.nodes, n, node[n].local) /\ plan.nodes[n].op = "append"
        /\ n \in DOMAIN plan.nodes /\ node[n].local.pc = "copy"
    BY <2>1, AtTyped
  <2>3. Arity(plan.nodes, n) = 2 /\ node[n].local.arg \in 1 .. 2
    BY <2>2, PlanArity DEF Typed, LocalOK, LocalType
  <2>4. PICK b : b = Block(n, node[n].local.arg)
    OBVIOUS
  <2>5. b \in Seq(0 .. NumRows) /\ Len(b) <= BlockSize
    BY <2>2, <2>3, <2>4, BlockTyped
  <2>6. node[n].local.pc \notin AskingPcs \cup {"test"}
    BY <2>2 DEF AskingPcs
  <2>7. /\ "get" \in Pcs(plan.nodes[n].op) /\ "get" \in AllPcs
        /\ "tail" \in Pcs(plan.nodes[n].op) /\ "tail" \in AllPcs
        /\ 2 <= Arity(plan.nodes, n) /\ 2 \in 1 .. 2
        /\ {"get", "tail"} \cap {"first_left", "test", "left", "skip_left", "first_right", "right"} = {}
    BY <2>2, <2>3 DEF Pcs, AllPcs
  <2>8. /\ LocalOK(plan.nodes, n, [node[n].local EXCEPT !.pc = "tail"])
        /\ LocalOK(plan.nodes, n, [node[n].local EXCEPT !.pc = "get"])
    BY <2>2, <2>7, SetPcOK
  <2>9. LocalOK(plan.nodes, n, [node[n].local EXCEPT !.pc = "get", !.arg = 2])
    BY <2>2, <2>7, SetPcArgOK
  <2>10. CASE \/ Goto(n, [node[n].local EXCEPT !.pc = "tail"])
              \/ Goto(n, [node[n].local EXCEPT !.pc = "get", !.arg = 2])
              \/ Goto(n, [node[n].local EXCEPT !.pc = "get"])
    BY <2>2, <2>8, <2>9, <2>10, GotoTyped
  <2>11. CASE ~ (node[n].local.row > Len(b))
    <3>1. /\ Filled(node[n], b) \in Seq(0 .. NumRows) /\ Len(Filled(node[n], b)) = BlockSize
          /\ LocalOK(plan.nodes, n, RowEmitted(node[n].local))
          /\ node[n].local.outidx + 1 # BlockSize => LocalOK(plan.nodes, n, RowKept(node[n].local))
      BY <2>2, <2>5, <2>6, <2>11, RowTyped
    <3>2. Len(Filled(node[n], b)) <= BlockSize /\ TRUE \in BOOLEAN
      BY <3>1, ConstantTypes
    <3>3. CASE Sink(n, TRUE, Filled(node[n], b), RowEmitted(node[n].local))
      BY <2>2, <3>1, <3>2, <3>3, SinkTyped
    <3>4. CASE /\ node[n].local.outidx + 1 # BlockSize
               /\ node' = [node EXCEPT ![n].buffer = Filled(node[n], b), ![n].local = RowKept(node[n].local)]
               /\ stack' = stack
               /\ UNCHANGED <<plan, exec, last, env>>
      BY <2>2, <3>1, <3>2, <3>4, FillTyped
    <3>5. QED
      BY <1>2, <2>4, <2>10, <2>11, <3>3, <3>4, AppendRowKinds
  <2>12. QED
    BY <1>2, <2>4, <2>10, <2>11, AppendRowKinds
<1>3. QED
  BY <1>1, <1>2

LEMMA EmitRestKinds ==
  ASSUME Typed, NEW n, EmitRest(n)
  PROVE  \E op \in {"filter", "append"}, pc \in {"tail", "end"} :
           /\ At(n, op, pc)
           /\ \/ /\ pc = "tail" /\ node[n].local.outidx > 0
                 /\ Sink(n, TRUE, Resize(node[n].buffer, node[n].local.outidx),
                         [node[n].local EXCEPT !.pc = "end"])
              \/ (pc = "end" \/ node[n].local.outidx = 0) /\ Ends(n, "none") /\ UNCHANGED env
BY DEF EmitRest, At, Op, Emit, Finish

LEMMA EmitRestTyped ==
  ASSUME Typed, EnvTyped, NEW n, EmitRest(n)
  PROVE  OperatorTyped
<1>1. PICK op \in {"filter", "append"}, pc \in {"tail", "end"} :
           /\ At(n, op, pc)
           /\ \/ /\ pc = "tail" /\ node[n].local.outidx > 0
                 /\ Sink(n, TRUE, Resize(node[n].buffer, node[n].local.outidx),
                         [node[n].local EXCEPT !.pc = "end"])
              \/ (pc = "end" \/ node[n].local.outidx = 0) /\ Ends(n, "none") /\ UNCHANGED env
  BY EmitRestKinds
<1>2. /\ InCoroutine(n) /\ LocalOK(plan.nodes, n, node[n].local) /\ plan.nodes[n].op = op
      /\ node[n].buffer \in Seq(0 .. NumRows)
  BY <1>1, AtTyped
<1>3. PICK u \in 0 .. (BlockSize - 1) : u = node[n].local.outidx
  BY <1>2, LocalParts
<1>4. Resize(node[n].buffer, u) \in Seq(0 .. NumRows) /\ Len(Resize(node[n].buffer, u)) = u
  BY <1>2, ResizeTyped
<1>5. u <= BlockSize /\ TRUE \in BOOLEAN /\ "none" \in Exceptions
  BY ConstantTypes DEF Exceptions
<1>6. /\ "end" \in Pcs(plan.nodes[n].op) /\ "end" \in AllPcs
      /\ "end" \notin {"first_left", "test", "left", "skip_left", "first_right", "right"}
  BY <1>2 DEF Pcs, AllPcs
<1>7. LocalOK(plan.nodes, n, [node[n].local EXCEPT !.pc = "end"])
  BY <1>2, <1>6, SetPcOK
<1>8. QED
  BY <1>1, <1>2, <1>3, <1>4, <1>5, <1>7, EndsTyped, SinkTyped

LEMMA FailKinds ==
  ASSUME Typed, NEW n, Fail(n)
  PROVE  /\ \/ At(n, "source", "read")
            \/ At(n, "linear", "apply") /\ Gets(n) = {TRUE}
         /\ Ends(n, "failed") /\ env' = [env EXCEPT !.failures = env.failures + 1]
BY DEF Fail

LEMMA FailTyped ==
  ASSUME Typed, EnvTyped, NEW n, Fail(n)
  PROVE  OperatorTyped
<1>1. InCoroutine(n) /\ Ends(n, "failed") /\ env' = [env EXCEPT !.failures = env.failures + 1]
  BY FailKinds, AtTyped
<1>2. EndStep(node, stack, node', stack', n, "failed")
  BY <1>1, EndsKind
<1>3. "failed" \in Exceptions
  BY DEF Exceptions
<1>4. Good0(plan.nodes, node', stack')
  BY <1>2, <1>3, EndGood DEF Typed
<1>5. env' \in [failures : Nat, canceled : BOOLEAN, resets : Nat]
  BY <1>1 DEF EnvTyped
<1>6. QED
  BY <1>1, <1>4, <1>5 DEF Ends, OperatorTyped, Untouched, InCoroutine, Running

LEMMA OperatorStepTyped ==
  ASSUME Typed, EnvTyped, NEW n, OperatorStep(n) \/ Fail(n)
  PROVE  OperatorTyped
BY SourceTyped, LinearTyped, FilterCallTyped, FilterTopTyped, FilterRowTyped, FilterTestTyped,
   AppendTyped, EmitRestTyped, FailTyped DEF OperatorStep

-----------------------------------------------------------------------------
(* Recursive functions.                                                    *)

\* G makes of a function on lo .. hi another one, whose value at n depends only
\* on the values before n.
Causal(lo, hi, V, G) ==
  /\ G \in [[lo .. hi -> V] -> [lo .. hi -> V]]
  /\ \A f, g \in [lo .. hi -> V] : \A n \in lo .. hi :
       (\A k \in lo .. hi : k < n => f[k] = g[k]) => G[f][n] = G[g][n]

HasFixpoint(lo, hi, V, G) == \E f \in [lo .. hi -> V] : f = G[f]

\* Then there is a function that G leaves as it is.
LEMMA RecursionExists ==
  ASSUME NEW lo \in Nat, NEW hi \in Nat, NEW V, NEW v0 \in V, NEW G, Causal(lo, hi, V, G)
  PROVE  HasFixpoint(lo, hi, V, G)
<1>0. /\ G \in [[lo .. hi -> V] -> [lo .. hi -> V]]
      /\ \A f, g \in [lo .. hi -> V] : \A n \in lo .. hi :
           (\A k \in lo .. hi : k < n => f[k] = g[k]) => G[f][n] = G[g][n]
  BY DEF Causal
<1> DEFINE D == lo .. hi
           good(k) == \E f \in [D -> V] : \A n \in D : n < k => f[n] = G[f][n]
           bad == {k \in Nat : ~ good(k)}
<1>1. good(lo)
  <2>1. PICK f : f = [n \in D |-> v0]
    OBVIOUS
  <2>2. f \in [D -> V] /\ \A n \in D : ~ (n < lo)
    BY <2>1
  <2>3. QED
    BY <2>2
<1>2. ASSUME NEW k \in Nat, good(k) PROVE good(k + 1)
  <2>1. PICK f \in [D -> V] : \A n \in D : n < k => f[n] = G[f][n]
    BY <1>2
  <2>2. CASE k \notin D
    <3>1. \A n \in D : n < k + 1 => n < k
      BY <2>2
    <3>2. QED
      BY <2>1, <3>1
  <2>3. CASE k \in D
    <3>1. G[f] \in [D -> V]
      BY <1>0
    <3>2. PICK g : g = [f EXCEPT ![k] = G[f][k]]
      OBVIOUS
    <3>3. g \in [D -> V] /\ g[k] = G[f][k] /\ \A n \in D : n # k => g[n] = f[n]
      BY <2>3, <3>1, <3>2
    <3>4. \A n \in D : n < k + 1 => G[g][n] = G[f][n]
      <4> TAKE n \in D
      <4> HAVE n < k + 1
      <4>1. \A j \in D : j < n => g[j] = f[j]
        BY <3>3
      <4>2. QED
        BY <1>0, <3>3, <4>1
    <3>5. \A n \in D : n < k + 1 => g[n] = G[g][n]
      <4> TAKE n \in D
      <4> HAVE n < k + 1
      <4>1. CASE n = k
        BY <3>3, <3>4, <4>1
      <4>2. CASE n # k
        <5>1. n < k
          BY <4>2
        <5>2. g[n] = f[n] /\ f[n] = G[f][n] /\ G[g][n] = G[f][n]
          BY <2>1, <3>3, <3>4, <4>2, <5>1
        <5>3. QED
          BY <5>2
      <4>3. QED
        BY <4>1, <4>2
    <3>6. QED
      BY <3>3, <3>5
  <2>4. QED
    BY <2>2, <2>3
<1>3. \A k \in Nat : k < lo => good(k)
  <2> TAKE k \in Nat
  <2> HAVE k < lo
  <2>1. PICK f : f = [n \in D |-> v0]
    OBVIOUS
  <2>2. f \in [D -> V] /\ \A n \in D : ~ (n < k)
    BY <2>1
  <2>3. QED
    BY <2>2
<1> HIDE DEF good
<1>4. bad = {}
  <2> SUFFICES ASSUME bad # {} PROVE FALSE
    OBVIOUS
  <2>1. bad \in SUBSET Nat
    OBVIOUS
  <2>2. PICK m \in bad : \A k \in bad : m <= k
    BY <2>1, Least
  <2>3. m \in Nat /\ ~ good(m)
    OBVIOUS
  <2>4. m > lo
    BY <1>1, <1>3, <2>3
  <2>5. m - 1 \in Nat /\ ~ (m <= m - 1) /\ (m - 1) + 1 = m
    BY <2>3, <2>4
  <2>6. good(m - 1)
    BY <2>2, <2>5
  <2>7. QED
    BY <1>2, <2>3, <2>5, <2>6
<1>5. good(hi + 1)
  BY <1>4
<1>6. PICK f \in [D -> V] : \A n \in D : n < hi + 1 => f[n] = G[f][n]
  BY <1>5 DEF good
<1>7. G[f] \in [D -> V]
  BY <1>0
<1>8. \A n \in D : f[n] = G[f][n]
  BY <1>6
<1>9. f = G[f]
  BY <1>7, <1>8
<1>10. QED
  BY <1>9 DEF HasFixpoint

\* The search of find_earliest_exception().
EarliestFrom(p, nd, e, n) ==
  LET bad == {i \in 1 .. Len(p[n].in) : e[p[n].in[i]] # 0}
  IN  IF bad # {} THEN e[p[n].in[CHOOSE i \in bad : \A j \in bad : i <= j]]
      ELSE IF nd[n].exception # "none" THEN n
      ELSE 0

LEMMA EarliestChoice ==
  ASSUME NEW p, IsPlan(p), NEW nd, NEW e, NEW n \in DOMAIN p
  PROVE  \/ \E i \in 1 .. Arity(p, n) : e[p[n].in[i]] # 0 /\ EarliestFrom(p, nd, e, n) = e[p[n].in[i]]
         \/ /\ \A i \in 1 .. Arity(p, n) : e[p[n].in[i]] = 0
            /\ EarliestFrom(p, nd, e, n) = IF nd[n].exception # "none" THEN n ELSE 0
<1> DEFINE bad == {i \in 1 .. Arity(p, n) : e[p[n].in[i]] # 0}
<1>0. EarliestFrom(p, nd, e, n) =
        IF bad # {} THEN e[p[n].in[CHOOSE i \in bad : \A j \in bad : i <= j]]
        ELSE IF nd[n].exception # "none" THEN n ELSE 0
  BY DEF EarliestFrom, Arity
<1>1. CASE bad = {}
  <2>1. \A i \in 1 .. Arity(p, n) : e[p[n].in[i]] = 0
    BY <1>1
  <2>2. QED
    BY <1>0, <1>1, <2>1
<1>2. CASE bad # {}
  <2>1. bad \in SUBSET Nat
    OBVIOUS
  <2>2. \E i \in bad : \A j \in bad : i <= j
    BY <1>2, <2>1, Least
  <2>3. PICK i : i = CHOOSE k \in bad : \A j \in bad : k <= j
    OBVIOUS
  <2>4. i \in bad
    BY <2>2, <2>3
  <2>5. EarliestFrom(p, nd, e, n) = e[p[n].in[i]]
    BY <1>0, <1>2, <2>3
  <2>6. QED
    BY <2>4, <2>5
<1>3. QED
  BY <1>1, <1>2

LEMMA EarliestSame ==
  ASSUME NEW p, IsPlan(p), NEW nd, NEW e, NEW f, NEW n \in DOMAIN p,
         \A k \in DOMAIN p : k < n => e[k] = f[k]
  PROVE  EarliestFrom(p, nd, e, n) = EarliestFrom(p, nd, f, n)
<1>1. \A i \in 1 .. Len(p[n].in) : e[p[n].in[i]] = f[p[n].in[i]]
  BY PlanArity DEF Arity
<1> DEFINE bad == {i \in 1 .. Len(p[n].in) : e[p[n].in[i]] # 0}
<1>2. bad = {i \in 1 .. Len(p[n].in) : f[p[n].in[i]] # 0}
  BY <1>1
<1>3. CASE bad = {}
  BY <1>2, <1>3 DEF EarliestFrom
<1>4. CASE bad # {}
  <2>1. bad \in SUBSET Nat
    BY PlanShape DEF Arity
  <2>2. \E i \in bad : \A j \in bad : i <= j
    BY <1>4, <2>1, Least
  <2>3. PICK i : i = CHOOSE k \in bad : \A j \in bad : k <= j
    OBVIOUS
  <2>4. i \in 1 .. Len(p[n].in)
    BY <2>2, <2>3
  <2>5. EarliestFrom(p, nd, e, n) = e[p[n].in[i]]
    BY <1>4, <2>3 DEF EarliestFrom
  <2>6. EarliestFrom(p, nd, f, n) = f[p[n].in[i]]
    BY <1>2, <1>4, <2>3 DEF EarliestFrom
  <2>7. QED
    BY <1>1, <2>4, <2>5, <2>6
<1>5. QED
  BY <1>3, <1>4

LEMMA EarliestIs ==
  ASSUME IsPlan(plan.nodes)
  PROVE  \E e \in [Nodes -> 0 .. Tip] :
           /\ find_earliest_exception = e[Tip]
           /\ \A n \in Nodes : e[n] = EarliestFrom(plan.nodes, node, e, n)
<1>1. PICK p : p = plan.nodes
  OBVIOUS
<1>2. PICK l \in Nat \ {0} : l = Len(p) /\ DOMAIN p = 1 .. l
  BY <1>1, PlanShape
<1>3. IsPlan(p) /\ Nodes = 1 .. l /\ Tip = l /\ l \in 1 .. l
  BY <1>1, <1>2 DEF Nodes, Tip
<1> DEFINE Body(f) == [n \in 1 .. l |-> EarliestFrom(p, node, f, n)]
           V == 0 .. l
           earliest == CHOOSE f : f = Body(f)
<1>4. find_earliest_exception = earliest[Tip]
  BY <1>1, <1>2, <1>3 DEF find_earliest_exception, EarliestFrom, num_inputs, InputOf
<1>5. ASSUME NEW f, NEW n \in 1 .. l, \A k \in 1 .. l : k < n => f[k] \in V
      PROVE  EarliestFrom(p, node, f, n) \in V
  <2>1. CASE \E i \in 1 .. Arity(p, n) : EarliestFrom(p, node, f, n) = f[p[n].in[i]]
    BY <1>2, <1>3, <1>5, <2>1, PlanArity
  <2>2. CASE EarliestFrom(p, node, f, n) = IF node[n].exception # "none" THEN n ELSE 0
    BY <2>2
  <2>3. QED
    BY <1>2, <1>3, <2>1, <2>2, EarliestChoice
<1>6. \E f : f = Body(f)
  <2> DEFINE G == [f \in [1 .. l -> V] |-> Body(f)]
  <2>1. ASSUME NEW f \in [1 .. l -> V] PROVE Body(f) \in [1 .. l -> V]
    BY <1>5
  <2>2. G \in [[1 .. l -> V] -> [1 .. l -> V]]
    BY <2>1
  <2>3. ASSUME NEW f \in [1 .. l -> V], NEW g \in [1 .. l -> V], NEW n \in 1 .. l,
               \A k \in 1 .. l : k < n => f[k] = g[k]
        PROVE  G[f][n] = G[g][n]
    <3>1. EarliestFrom(p, node, f, n) = EarliestFrom(p, node, g, n)
      BY <1>2, <1>3, <2>3, EarliestSame
    <3>2. G[f] = Body(f) /\ G[g] = Body(g)
      OBVIOUS
    <3>3. QED
      BY <3>1, <3>2
  <2>4. 0 \in V /\ 1 \in Nat /\ l \in Nat
    OBVIOUS
  <2>5. \A f \in [1 .. l -> V] : G[f] = Body(f)
    OBVIOUS
  <2> HIDE DEF G, V, Body
  <2>6. \A f, g \in [1 .. l -> V] : \A n \in 1 .. l :
          (\A k \in 1 .. l : k < n => f[k] = g[k]) => G[f][n] = G[g][n]
    BY <2>3
  <2>7. Causal(1, l, V, G)
    BY <2>2, <2>6 DEF Causal
  <2>8. HasFixpoint(1, l, V, G)
    BY <2>4, <2>7, RecursionExists
  <2>9. QED
    BY <2>5, <2>8 DEF HasFixpoint
<1>7. earliest = Body(earliest)
  BY <1>6
<1>8. PICK e : e = earliest
  OBVIOUS
<1> HIDE DEF earliest
<1>9. e = [n \in 1 .. l |-> EarliestFrom(p, node, e, n)]
  BY <1>7, <1>8
<1>10. \A n \in 1 .. l : e[n] = EarliestFrom(p, node, e, n)
  BY <1>9
<1>11. \A n \in 1 .. l : e[n] \in V
  <2> DEFINE bad == {n \in 1 .. l : e[n] \notin V}
  <2> SUFFICES ASSUME bad # {} PROVE FALSE
    OBVIOUS
  <2>1. bad \in SUBSET Nat
    OBVIOUS
  <2>2. PICK m \in bad : \A k \in bad : m <= k
    BY <2>1, Least
  <2>3. \A k \in 1 .. l : k < m => e[k] \in V
    BY <2>2
  <2>4. m \in 1 .. l /\ e[m] \notin V
    OBVIOUS
  <2>5. EarliestFrom(p, node, e, m) \in V
    BY <1>5, <2>3, <2>4
  <2>6. QED
    BY <1>10, <2>4, <2>5
<1>12. e \in [1 .. l -> V]
  <2>1. PICK h : h = [n \in 1 .. l |-> EarliestFrom(p, node, e, n)]
    OBVIOUS
  <2>2. h \in [1 .. l -> V]
    BY <1>10, <1>11, <2>1
  <2>3. QED
    BY <1>9, <2>1, <2>2
<1>13. QED
  BY <1>1, <1>3, <1>4, <1>8, <1>10, <1>12

-----------------------------------------------------------------------------
(* The type invariant.                                                     *)

LEMMA TypeInvTyped ==
  ASSUME TypeInv
  PROVE  Typed /\ EnvTyped /\ IsPlan(plan.nodes)
<1>1. IsPlan(plan.nodes)
  BY ConstantTypes DEF TypeInv
<1>2. QED
  BY <1>1 DEF TypeInv, Typed, Good0, EnvTyped

\* A step that leaves the executor alone.
LEMMA OperatorKeepsType ==
  ASSUME TypeInv, OperatorTyped
  PROVE  TypeInv'
BY DEF TypeInv, OperatorTyped, Untouched, Good0

LEMMA ResumeKeepsType ==
  ASSUME TypeInv, Resume
  PROVE  TypeInv'
<1>1. Typed /\ EnvTyped
  BY TypeInvTyped
<1>2. PICK n \in DOMAIN plan.nodes, c \in Edges(plan.nodes) :
        /\ ResumeStep(node, stack, node', stack', n, c, AfterSink(n))
        /\ AfterSinkIs(plan.nodes, n, node[n].skip, node[n].local, AfterSink(n))
        /\ UNCHANGED <<plan, exec, last, env>>
  BY <1>1, ResumeKind
<1>3. Good0(plan.nodes, node, stack) /\ LocalOK(plan.nodes, n, AfterSink(n)) /\ stack # <<>>
  BY <1>1, <1>2 DEF Typed, AfterSinkIs, ResumeStep, Waits
<1>4. Good0(plan.nodes, node', stack')
  BY <1>2, <1>3, ResumeGood
<1>5. OperatorTyped
  BY <1>1, <1>2, <1>3, <1>4 DEF OperatorTyped, Untouched, EnvTyped
<1>6. QED
  BY <1>5, OperatorKeepsType

ExecType(p) == [pc : {"call", "check", "done"}, collected : Seq(0 .. NumRows), stopped : BOOLEAN,
                outcome : {"none", "ok", "thrown"}, reported : 0 .. Len(p)]

\* What generate_to_callback_function() makes of what it gets.
LEMMA ExecutorReceivesIs ==
  ASSUME TypeInv, NEW rows \in BOOLEAN, ExecutorReceives(rows)
  PROVE  /\ exec' \in ExecType(plan.nodes)
         /\ exec'.outcome = exec.outcome /\ exec'.reported = exec.reported
         /\ ~ rows => /\ exec'.pc = "check" /\ exec'.collected = exec.collected
                      /\ exec'.stopped = exec.stopped
         /\ rows => /\ exec'.collected = exec.collected \o node[Tip].buffer
                    /\ exec'.pc \in {"call", "check"}
                    /\ exec'.pc = "check" <=> exec'.stopped
<1>1. exec \in ExecType(plan.nodes)
  BY DEF TypeInv, ExecType
<1>2. CASE ~ rows
  <2>1. exec' = [exec EXCEPT !.pc = "check"]
    BY <1>2 DEF ExecutorReceives
  <2>2. QED
    BY <1>1, <1>2, <2>1 DEF ExecType
<1>3. CASE rows
  <2>1. PICK done \in BOOLEAN :
          exec' = [exec EXCEPT !.collected = exec.collected \o node[Tip].buffer,
                               !.stopped = done, !.pc = IF done THEN "check" ELSE "call"]
    BY <1>3 DEF ExecutorReceives
  <2>2. node[Tip].buffer \in Seq(0 .. NumRows)
    <3>1. Tip \in DOMAIN plan.nodes
      BY TypeInvTyped, PlanShape DEF Tip
    <3>2. NodeOK(plan.nodes, Tip, node[Tip])
      BY <3>1 DEF TypeInv, Shape
    <3>3. QED
      BY <3>1, <3>2, NodeParts
  <2>3. exec.collected \o node[Tip].buffer \in Seq(0 .. NumRows)
    BY <1>1, <2>2 DEF ExecType
  <2>4. PICK pc \in {"call", "check"} : pc = IF done THEN "check" ELSE "call"
    OBVIOUS
  <2>5. exec' = [exec EXCEPT !.collected = exec.collected \o node[Tip].buffer,
                             !.stopped = done, !.pc = pc]
    BY <2>1, <2>4
  <2>6. /\ exec' \in ExecType(plan.nodes)
        /\ exec'.outcome = exec.outcome /\ exec'.reported = exec.reported
        /\ exec'.collected = exec.collected \o node[Tip].buffer
        /\ exec'.pc = pc /\ exec'.stopped = done
    BY <1>1, <2>3, <2>5 DEF ExecType
  <2>7. pc = "check" <=> done
    BY <2>4
  <2>8. QED
    BY <1>3, <2>6, <2>7
<1>4. QED
  BY <1>2, <1>3

LEMMA ReturnKeepsType ==
  ASSUME TypeInv, Return
  PROVE  TypeInv'
<1>1. Typed /\ EnvTyped /\ IsPlan(plan.nodes)
  BY TypeInvTyped
<1>2. PICK n \in DOMAIN plan.nodes, c \in Edges(plan.nodes), rows \in BOOLEAN :
           /\ rows <=> RowsReturned(node, n, c)
           /\ ReturnStep(plan.nodes, node, stack, node', stack', n, c, Received(c[1], rows))
           /\ last' = [node |-> n, skip |-> node[n].skip, rows |-> rows]
           /\ c # Executor => exec' = exec
           /\ c = Executor => ExecutorReceives(rows)
           /\ UNCHANGED <<plan, env>>
  BY <1>1, ReturnKind
<1>3. Good0(plan.nodes, node, stack) /\ Waits(stack, n, c)
  BY <1>1, <1>2 DEF Typed, ReturnStep
<1>4. c # Executor => LocalOK(plan.nodes, c[1], Received(c[1], rows))
  <2> HAVE c # Executor
  <2>1. ReceivedIs(plan.nodes, c[1], rows, node[c[1]].local, Received(c[1], rows))
    BY <1>1, <1>3, CallerAsks, ReceivedKind
  <2>2. QED
    BY <2>1 DEF ReceivedIs
<1>5. Good0(plan.nodes, node', stack')
  BY <1>2, <1>3, <1>4, ReturnGood
<1>6. exec' \in ExecType(plan.nodes)
  <2>1. CASE c = Executor
    BY <1>2, <2>1, ExecutorReceivesIs
  <2>2. CASE c # Executor
    BY <1>2, <2>2 DEF TypeInv, ExecType
  <2>3. QED
    BY <2>1, <2>2
<1>7. stack' # <<>> => exec'.pc = "call"
  <2> HAVE stack' # <<>>
  <2>1. c # Executor
    <3>1. StackOK(plan.nodes, node, stack)
      BY <1>3 DEF Good0
    <3>2. stack' = SubSeq(stack, 1, Len(stack) - 1)
      BY <1>2 DEF ReturnStep
    <3>3. QED
      BY <1>1, <1>3, <3>1, <3>2, PopViews DEF Waits, TopOf, TopPopped
  <2>2. stack # <<>>
    BY <1>3 DEF Waits
  <2>3. QED
    BY <1>2, <2>1, <2>2 DEF TypeInv
<1>8. last' \in [node : 0 .. Len(plan.nodes), skip : BOOLEAN, rows : BOOLEAN]
  <2>1. n \in 0 .. Len(plan.nodes)
    BY <1>1, PlanShape
  <2>2. NodeOK(plan.nodes, n, node[n])
    BY <1>3 DEF Good0, Shape
  <2>3. node[n].skip \in BOOLEAN
    BY <2>2, NodeParts
  <2>4. QED
    BY <1>2, <2>1, <2>3
<1>9. QED
  BY <1>2, <1>5, <1>6, <1>7, <1>8 DEF TypeInv, Good0, ExecType

LEMMA ExecutorCallKinds ==
  ASSUME TypeInv, ExecutorCall
  PROVE  /\ stack = <<>> /\ exec.pc = "call"
         /\ \/ /\ env.canceled /\ exec' = [exec EXCEPT !.pc = "done", !.outcome = "thrown"]
               /\ UNCHANGED <<plan, node, stack, last, env>>
            \/ /\ ~ env.canceled /\ UNCHANGED <<plan, exec, last, env>>
               /\ Executor \in Edges(plan.nodes)
               /\ EnterStep(plan.nodes, node, stack, node', stack', Executor, FALSE)
<1>1. Typed /\ EnvTyped /\ IsPlan(plan.nodes)
  BY TypeInvTyped
<1>2. stack = <<>> /\ exec.pc = "call"
  BY DEF ExecutorCall, Running
<1>3. CASE env.canceled
  BY <1>2, <1>3 DEF ExecutorCall
<1>4. CASE ~ env.canceled
  <2>1. Enter(Tip, Executor, FALSE)
    BY <1>4 DEF ExecutorCall
  <2>2. Executor \in Edges(plan.nodes) /\ Tip = Src(plan.nodes, Executor)
    BY DEF Edges, Src, Tip
  <2>3. PICK k \in BOOLEAN : k = FALSE
    OBVIOUS
  <2>4. EnterStep(plan.nodes, node, stack, node', stack', Executor, k)
    BY <1>1, <1>2, <2>1, <2>2, <2>3, EnterKind
  <2>5. QED
    BY <1>2, <1>4, <2>1, <2>2, <2>3, <2>4 DEF Enter
<1>5. QED
  BY <1>3, <1>4

LEMMA ExecutorCallKeepsType ==
  ASSUME TypeInv, ExecutorCall
  PROVE  TypeInv'
<1>1. CASE /\ exec' = [exec EXCEPT !.pc = "done", !.outcome = "thrown"]
           /\ UNCHANGED <<plan, node, stack, last, env>>
  <2>1. stack = <<>>
    BY ExecutorCallKinds
  <2>2. exec' \in ExecType(plan.nodes)
    BY <1>1 DEF TypeInv, ExecType
  <2>3. QED
    BY <1>1, <2>1, <2>2 DEF TypeInv, ExecType
<1>2. CASE /\ UNCHANGED <<plan, exec, last, env>>
           /\ EnterStep(plan.nodes, node, stack, node', stack', Executor, FALSE)
  <2>1. Good0(plan.nodes, node, stack)
    BY TypeInvTyped DEF Typed
  <2>2. Good0(plan.nodes, node', stack')
    BY <1>2, <2>1, EnterGood
  <2>3. exec.pc = "call"
    BY ExecutorCallKinds
  <2>4. QED
    BY <1>2, <2>2, <2>3 DEF TypeInv, Good0
<1>3. QED
  BY <1>1, <1>2, ExecutorCallKinds

LEMMA ExecutorChecksIs ==
  ASSUME TypeInv, ExecutorChecks
  PROVE  /\ stack = <<>> /\ exec.pc = "check" /\ UNCHANGED <<plan, node, stack, last, env>>
         /\ exec' \in ExecType(plan.nodes) /\ exec'.pc = "done"
         /\ exec'.collected = exec.collected /\ exec'.stopped = exec.stopped
         /\ exec'.outcome = IF has_exception THEN "thrown" ELSE "ok"
         /\ exec'.reported = IF has_exception THEN find_earliest_exception ELSE 0
<1>1. exec \in ExecType(plan.nodes)
  BY DEF TypeInv, ExecType
<1>2. find_earliest_exception \in 0 .. Len(plan.nodes) /\ 0 \in 0 .. Len(plan.nodes)
  <2>1. IsPlan(plan.nodes)
    BY TypeInvTyped
  <2>2. Tip \in Nodes /\ Tip = Len(plan.nodes) /\ Tip \in Nat
    BY <2>1, PlanShape DEF Tip, Nodes
  <2>3. QED
    BY <2>1, <2>2, EarliestIs
<1>3. PICK r \in 0 .. Len(plan.nodes) : r = IF has_exception THEN find_earliest_exception ELSE 0
  BY <1>2
<1>4. PICK out \in {"none", "ok", "thrown"} : out = IF has_exception THEN "thrown" ELSE "ok"
  OBVIOUS
<1>5. exec' = [exec EXCEPT !.pc = "done", !.outcome = out, !.reported = r]
  BY <1>3, <1>4 DEF ExecutorChecks
<1>6. /\ exec' \in ExecType(plan.nodes) /\ exec'.pc = "done" /\ exec'.outcome = out
      /\ exec'.reported = r /\ exec'.collected = exec.collected /\ exec'.stopped = exec.stopped
  BY <1>1, <1>5 DEF ExecType
<1>7. QED
  BY <1>3, <1>4, <1>6 DEF ExecutorChecks, Running

LEMMA ExecutorChecksKeepsType ==
  ASSUME TypeInv, ExecutorChecks
  PROVE  TypeInv'
BY ExecutorChecksIs DEF TypeInv, ExecType

LEMMA CancelKeepsType ==
  ASSUME TypeInv, Cancel
  PROVE  TypeInv'
BY DEF TypeInv, Cancel

\* The node n after tip->reset().
ResetNode(n) ==
  IF n \in reset_nodes
    THEN [node[n] EXCEPT !.started = FALSE, !.queue = <<>>,
            !.exception = IF node[n].started THEN "none" ELSE node[n].exception]
    ELSE node[n]

LEMMA ResetNodeIs ==
  ASSUME TypeInv, NEW n \in DOMAIN plan.nodes
  PROVE  /\ NodeOK(plan.nodes, n, ResetNode(n))
         /\ n \in reset_nodes => ~ ResetNode(n).started
         /\ ResetNode(n).exception \in {"none", node[n].exception}
         /\ n \in reset_nodes /\ node[n].started => ResetNode(n).exception = "none"
         /\ n \notin reset_nodes => ResetNode(n) = node[n]
<1>1. NodeOK(plan.nodes, n, node[n])
  BY DEF TypeInv, Shape
<1>2. CASE n \notin reset_nodes
  BY <1>1, <1>2 DEF ResetNode
<1>3. CASE n \in reset_nodes
  <2>1. PICK exc : exc = IF node[n].started THEN "none" ELSE node[n].exception
    OBVIOUS
  <2>2. PICK y : y = ResetNode(n)
    OBVIOUS
  <2>3. y = [node[n] EXCEPT !.started = FALSE, !.queue = <<>>, !.exception = exc]
    BY <1>3, <2>1, <2>2 DEF ResetNode
  <2>4. exc \in Exceptions /\ <<>> \in Seq(BOOLEAN)
    BY <1>1, <2>1, NodeParts DEF Exceptions
  <2>5. node[n] \in NodeType(plan.nodes, n) /\ Len(node[n].buffer) <= BlockSize
        /\ LocalOK(plan.nodes, n, node[n].local)
    BY <1>1 DEF NodeOK
  <2>6. /\ y \in NodeType(plan.nodes, n) /\ y.buffer = node[n].buffer /\ y.local = node[n].local
        /\ ~ y.started /\ y.exception = exc
    BY <2>3, <2>4, <2>5 DEF NodeType
  <2>7. NodeOK(plan.nodes, n, y)
    BY <2>5, <2>6 DEF NodeOK
  <2>8. QED
    BY <1>3, <2>1, <2>2, <2>6, <2>7
<1>4. QED
  BY <1>2, <1>3

LEMMA ResetIs ==
  ASSUME TypeInv, Reset
  PROVE  /\ stack = <<>> /\ stack' = <<>> /\ plan' = plan /\ exec' = NewExec /\ last' = NoReturn
         /\ env' = [env EXCEPT !.resets = env.resets + 1]
         /\ node' = [n \in DOMAIN plan.nodes |-> ResetNode(n)]
BY DEF Reset, Running, ResetNode, Nodes

LEMMA NewExecTyped ==
  ASSUME NEW p, IsPlan(p)
  PROVE  /\ NewExec \in ExecType(p)
         /\ NoReturn \in [node : 0 .. Len(p), skip : BOOLEAN, rows : BOOLEAN]
<1>1. 0 \in 0 .. Len(p)
  BY PlanShape
<1>2. <<>> \in Seq(0 .. NumRows)
  OBVIOUS
<1>3. QED
  BY <1>1, <1>2 DEF NewExec, NoReturn, ExecType

LEMMA EmptyStackOK ==
  ASSUME NEW p, IsPlan(p), NEW nd
  PROVE  StackOK(p, nd, <<>>)
BY DEF StackOK

LEMMA ResetKeepsType ==
  ASSUME TypeInv, Reset
  PROVE  TypeInv'
<1>1. IsPlan(plan.nodes)
  BY TypeInvTyped
<1>2. Shape(plan.nodes, node')
  BY ResetIs, ResetNodeIs DEF Shape
<1>3. exec' \in ExecType(plan.nodes) /\ last' \in [node : 0 .. Len(plan.nodes), skip : BOOLEAN, rows : BOOLEAN]
  BY <1>1, ResetIs, NewExecTyped
<1>4. StackOK(plan.nodes, node', stack')
  BY <1>1, ResetIs, EmptyStackOK
<1>5. env' \in [failures : Nat, canceled : BOOLEAN, resets : Nat]
  BY ResetIs DEF TypeInv
<1>6. QED
  BY <1>2, <1>3, <1>4, <1>5, ResetIs DEF TypeInv, ExecType

LEMMA NewNodeOK ==
  ASSUME NEW p, IsPlan(p), NEW n \in DOMAIN p
  PROVE  NodeOK(p, n, NewNode(p, n))
<1>1. PICK o : o = NewOperator(p[n].op)
  OBVIOUS
<1>2. LocalOK(p, n, o) /\ o \in LocalType
  BY <1>1, NewOperatorOK DEF LocalOK
<1>3. PICK pop : pop = [c \in ConsumersOf(p, n) |-> 0]
  OBVIOUS
<1>4. pop \in [ConsumersOf(p, n) -> Nat] /\ <<>> \in Seq(BOOLEAN) /\ <<>> \in Seq(0 .. NumRows)
      /\ "none" \in Exceptions
  BY <1>3 DEF Exceptions
<1>5. PICK y : y = [started |-> FALSE, done |-> FALSE, skip |-> FALSE, exception |-> "none",
                    queue |-> <<>>, popped |-> pop, buffer |-> <<>>, local |-> o]
  OBVIOUS
<1>6. y \in NodeType(p, n) /\ y.buffer = <<>> /\ y.local = o
  BY <1>2, <1>4, <1>5 DEF NodeType
<1>7. Len(<<>>) <= BlockSize
  BY ConstantTypes
<1>8. NodeOK(p, n, y)
  BY <1>2, <1>6, <1>7 DEF NodeOK
<1>9. QED
  BY <1>1, <1>3, <1>5, <1>8 DEF NewNode

LEMMA InitType ==
  ASSUME Init
  PROVE  TypeInv
<1>1. PICK p \in Plans, mask \in SUBSET (1 .. NumRows) :
        /\ plan = [nodes |-> p, mask |-> mask]
        /\ node = [n \in DOMAIN p |-> NewNode(p, n)]
        /\ stack = <<>>
        /\ exec = NewExec
        /\ last = NoReturn
        /\ env = [failures |-> 0, canceled |-> FALSE, resets |-> 0]
  BY DEF Init
<1>2. IsPlan(p) /\ plan.nodes = p /\ plan.mask = mask
  BY <1>1, ConstantTypes
<1>3. Shape(p, node)
  BY <1>1, <1>2, NewNodeOK DEF Shape
<1>4. StackOK(p, node, stack)
  BY <1>1, <1>2, EmptyStackOK
<1>5. exec \in ExecType(p) /\ last \in [node : 0 .. Len(p), skip : BOOLEAN, rows : BOOLEAN]
  BY <1>1, <1>2, NewExecTyped
<1>6. env \in [failures : Nat, canceled : BOOLEAN, resets : Nat]
  BY <1>1
<1>7. QED
  BY <1>1, <1>2, <1>3, <1>4, <1>5, <1>6 DEF TypeInv, ExecType

LEMMA NextKeepsType ==
  ASSUME TypeInv, [Next]_vars
  PROVE  TypeInv'
<1>1. CASE Resume
  BY <1>1, ResumeKeepsType
<1>2. CASE Return
  BY <1>2, ReturnKeepsType
<1>3. CASE ExecutorCall
  BY <1>3, ExecutorCallKeepsType
<1>4. CASE ExecutorChecks
  BY <1>4, ExecutorChecksKeepsType
<1>5. ASSUME NEW n \in Nodes, OperatorStep(n) \/ Fail(n) PROVE TypeInv'
  BY <1>5, TypeInvTyped, OperatorStepTyped, OperatorKeepsType
<1>6. CASE Cancel
  BY <1>6, CancelKeepsType
<1>7. CASE Reset
  BY <1>7, ResetKeepsType
<1>8. CASE UNCHANGED vars
  BY <1>8 DEF vars, TypeInv
<1>9. QED
  BY <1>1, <1>2, <1>3, <1>4, <1>5, <1>6, <1>7, <1>8 DEF Next, Step

LEMMA TypeInvImplies ==
  ASSUME TypeInv
  PROVE  TypeOK
<1>1. IsPlan(plan.nodes)
  BY TypeInvTyped
<1>2. ASSUME NEW n \in Nodes
      PROVE  /\ node[n].started \in BOOLEAN /\ node[n].done \in BOOLEAN
             /\ node[n].skip \in BOOLEAN
             /\ node[n].exception \in {"none", "failed", "canceled", "assert"}
             /\ node[n].queue \in Seq(BOOLEAN)
             /\ \A c \in DOMAIN node[n].popped : node[n].popped[c] \in Nat
             /\ node[n].buffer \in Seq(0 .. NumRows) /\ Len(node[n].buffer) <= BlockSize
             /\ node[n].local.arg \in 1 .. 2 /\ node[n].local.row \in 1 .. (BlockSize + 1)
             /\ node[n].local.outidx < BlockSize /\ node[n].local.start \in 0 .. NumRows
  <2>1. n \in DOMAIN plan.nodes
    BY DEF Nodes
  <2>2. NodeOK(plan.nodes, n, node[n])
    BY <2>1 DEF TypeInv, Shape
  <2>3. LocalOK(plan.nodes, n, node[n].local)
    BY <2>1, <2>2, NodeParts
  <2>4. node[n].local.outidx \in 0 .. (BlockSize - 1)
    BY <2>3, LocalParts
  <2>5. node[n].local.outidx < BlockSize
    BY <2>4, ConstantTypes
  <2>6. node[n].popped \in [ConsumersOf(plan.nodes, n) -> Nat]
    BY <2>1, <2>2, NodeParts
  <2>7. QED
    BY <2>1, <2>2, <2>3, <2>5, <2>6, NodeParts, LocalParts DEF Exceptions
<1>3. \A k \in DOMAIN stack : stack[k].node \in Nodes
  <2>1. StackOK(plan.nodes, node, stack)
    BY DEF TypeInv
  <2>2. DOMAIN stack = 1 .. Len(stack) /\ \A k \in 1 .. Len(stack) : stack[k].node \in DOMAIN plan.nodes
    BY <1>1, <2>1, StackTyped
  <2>3. QED
    BY <2>2 DEF Nodes
<1>4. exec.outcome \in {"none", "ok", "thrown"} /\ exec.reported \in 0 .. Tip
  BY DEF TypeInv, Tip
<1>5. QED
  BY <1>2, <1>3, <1>4 DEF TypeOK

\* The type invariant, for every plan: in particular no operator writes past its
\* output buffer or reads past its block, whatever the plan, and the search for
\* the exception to report finds a node of the plan.
THEOREM TypeCorrect == Spec => []TypeOK
<1>1. Init => TypeInv
  BY InitType
<1>2. TypeInv /\ [Next]_vars => TypeInv'
  BY NextKeepsType
<1>3. TypeInv => TypeOK
  BY TypeInvImplies
<1>4. QED
  BY <1>1, <1>2, <1>3, PTL DEF Spec

-----------------------------------------------------------------------------
(* The control state.  z holds the nodes and the stack with two histories: *)
(* z.a counts the calls of each consumer that have returned, and z.r the   *)
(* rounds of each driver, the consumer that sets the pace of a node.  z.go *)
(* says that the user has not canceled, z.pc where the executor is.        *)
(* Everything the invariant says of the control is said with the following *)
(* views; what is true or false is 1 or 0.                                 *)

Up(z, n) == IF z.nd[n].started THEN 1 ELSE 0
K(z, n) == IF z.nd[n].started THEN Len(z.nd[n].queue) ELSE 0
En(z, n) == IF z.nd[n].started /\ z.nd[n].done THEN 1 ELSE 0
Ac(z, n) == IF n \in Act(z.st) THEN 1 ELSE 0
Ca(z, c) == IF c \in Cal(z.st) THEN 1 ELSE 0
Pc(z, n) == z.nd[n].local.pc
Arg(z, n) == z.nd[n].local.arg
Got(z, n, i) == IF z.nd[n].local.got[i] THEN 1 ELSE 0
Sk(z, n) == IF z.nd[n].skip THEN 1 ELSE 0
\* The last element in the queue of n is not a nullptr.
El(z, n) == IF K(z, n) > 0 /\ ~ z.nd[n].queue[K(z, n)] THEN 0 ELSE 1
\* The last block of n is none: a nullptr stands for it, or the source has not
\* read it.
Fk(p, z, n) == IF p[n].op = "source" THEN (IF z.nd[n].local.skip_next_block THEN 1 ELSE 0)
               ELSE 1 - El(z, n)
ON(z) == On(z.st)
A(z, c) == z.a[c]
R(z, c) == z.r[c]

\* The filter that drives D is skipping blocks of its left input.
Skipping(p, z, D) == /\ D # Executor /\ p[D[1]].op = "filter"
                     /\ Up(z, D[1]) = 1 /\ Pc(z, D[1]) = "skip_left"
\* It has just done so.
Skipped(p, z, D) == /\ D # Executor /\ p[D[1]].op = "filter"
                    /\ Up(z, D[1]) = 1 /\ Pc(z, D[1]) = "right" /\ Ca(z, D) = 0

\* The operator of consumer c still looks at what its last call returned.
Sees(p, z, c) ==
  /\ c # Executor
  /\ \/ /\ p[c[1]].op = "linear" /\ Ac(z, c[1]) = 1
        /\ Pc(z, c[1]) = "apply" \/ (Pc(z, c[1]) = "get" /\ c[2] < Arg(z, c[1]))
     \/ /\ p[c[1]].op = "filter" /\ Up(z, c[1]) = 1
        /\ \/ Pc(z, c[1]) \in {"first", "check", "rows"}
           \/ Pc(z, c[1]) = "first_right" /\ c[2] = 1
           \/ Pc(z, c[1]) \in {"test", "left", "skip_left"} /\ c[2] = 2
     \/ /\ p[c[1]].op = "append" /\ Up(z, c[1]) = 1
        /\ Pc(z, c[1]) = "copy" /\ Arg(z, c[1]) = c[2]

\* Consumer c does not ask again.
Over(p, z, c) ==
  \/ c = Executor /\ z.pc # "call"
  \/ /\ c # Executor
     /\ \/ Sees(p, z, c)
        \/ p[c[1]].op = "linear" /\ En(z, c[1]) = 1
        \/ p[c[1]].op \in {"filter", "append"} /\ Pc(z, c[1]) \in {"tail", "end"}
        \/ p[c[1]].op = "append" /\ Arg(z, c[1]) > c[2]

\* A node keeps the pace of its driver,
Pace(d, z, n) == K(z, n) + En(z, n) <= R(z, d[n]) /\ K(z, n) + Ac(z, n) <= R(z, d[n])

\* and so do its consumers.
Edge(p, d, z, c) ==
  /\ A(z, c) + Ca(z, c) <= R(z, d[Src(p, c)]) /\ R(z, d[Src(p, c)]) <= A(z, c) + 1
  /\ A(z, c) > K(z, Src(p, c)) => En(z, Src(p, c)) = 1

\* A linear operator has asked once more for the inputs it has read for its next
\* block.
Linear(p, z, m) == p[m].op = "linear" =>
  /\ Ac(z, m) = 1 =>
       /\ \A i \in 1 .. Arity(p, m) :
            A(z, <<m, i>>) = IF Pc(z, m) \in {"apply", "fake"} \/ i < Arg(z, m)
                             THEN K(z, m) + 1 ELSE K(z, m)
       /\ Sk(z, m) = 1 <=> Pc(z, m) \in {"drain", "fake"}
  /\ Ac(z, m) = 0 /\ En(z, m) = 0 =>
       \A i \in 1 .. Arity(p, m) : A(z, <<m, i>>) = K(z, m)
  /\ En(z, m) = 1 /\ z.go =>
       \A i \in 1 .. Arity(p, m) : A(z, <<m, i>>) = K(z, m) + 1

\* Where a filter is says how often it has asked, x for the left and y for the
\* right block, and its round, w.
FilterAt(pc, x, y, w, left, right) ==
  \/ pc = "first_left" /\ x = 0 /\ y = 0 /\ w = left
  \/ pc = "first_right" /\ x = 1 /\ y = 0 /\ w = 1
  \/ pc = "right" /\ x >= 1 /\ y = x /\ w = x + right
  \/ pc \in {"first", "check", "rows", "tail", "end"} /\ x >= 1 /\ y = x /\ w = x
  \/ pc \in {"test", "left", "skip_left"} /\ x >= 1 /\ y = x + 1 /\ w = y

Filter(p, z, m) == p[m].op = "filter" =>
  /\ Up(z, m) = 0 => A(z, <<m, 1>>) = 0 /\ A(z, <<m, 2>>) = 0 /\ R(z, <<m, 2>>) = 0
  /\ Up(z, m) = 1 =>
       /\ FilterAt(Pc(z, m), A(z, <<m, 1>>), A(z, <<m, 2>>), R(z, <<m, 2>>),
                   Ca(z, <<m, 1>>), Ca(z, <<m, 2>>))
       /\ Pc(z, m) = "rows" => Got(z, m, 1) = 1 /\ Got(z, m, 2) = 1
       /\ Pc(z, m) = "skip_left" => Got(z, m, 2) = 1

Appends(p, z, m) == p[m].op = "append" =>
  /\ \A i \in 1 .. 2 : R(z, <<m, i>>) = A(z, <<m, i>>) + Ca(z, <<m, i>>)
  /\ Up(z, m) = 0 => A(z, <<m, 1>>) = 0 /\ A(z, <<m, 2>>) = 0
  /\ Up(z, m) = 1 /\ Arg(z, m) = 1 => A(z, <<m, 2>>) = 0 /\ Pc(z, m) \in {"get", "copy"}

\* A node runs only while its driver asks.
Busy(p, d, z, n) == n \in ON(z) =>
  \/ d[n] = Executor
  \/ /\ Ac(z, d[n][1]) = 1
     /\ p[d[n][1]].op = "append" => Ca(z, d[n]) = 1
     /\ p[d[n][1]].op = "filter" => Ca(z, <<d[n][1], 1>>) = 1 \/ Ca(z, <<d[n][1], 2>>) = 1

\* What a consumer has got is what the node has.
Gets1(p, z, c) == Sees(p, z, c) =>
  IF Got(z, c[1], c[2]) = 1 THEN A(z, c) = K(z, Src(p, c))
  ELSE En(z, Src(p, c)) = 1 /\ K(z, Src(p, c)) < A(z, c)

\* When a linear operator has ended, so does, in this round, whoever asks it.
Ended(p, d, z, n) == (p[n].op = "linear" /\ En(z, n) = 1 /\ z.go) =>
  /\ R(z, d[n]) = K(z, n) + 1
  /\ ~ Skipping(p, z, d[n])
  /\ \E c \in Edges(p) : Src(p, c) = n /\ (Ca(z, c) = 1 \/ A(z, c) = R(z, d[n]))

Hears(p, z, c) ==
  (/\ p[Src(p, c)].op = "linear" /\ En(z, Src(p, c)) = 1 /\ z.go
   /\ A(z, c) = K(z, Src(p, c)) + 1) => Over(p, z, c)

\* Blocks are skipped all along the left input of a filter that skips, and only
\* there.
Skips(p, d, z, n) ==
  /\ n \in ON(z) => (Sk(z, n) = 1 <=> Skipping(p, z, d[n]))
  /\ p[n].op = "source" => El(z, n) = 1 /\ (Ac(z, n) = 1 => Fk(p, z, n) = Sk(z, n))
  /\ Fk(p, z, n) = 1 /\ K(z, n) = R(z, d[n]) /\ K(z, n) > 0 =>
       Skipping(p, z, d[n]) \/ Skipped(p, z, d[n])

\* A node is started by a consumer that has started.
Asked(p, z, n) == Up(z, n) = 1 =>
  \E c \in Edges(p) : Src(p, c) = n /\ (c # Executor => Up(z, c[1]) = 1)

Control(p, d, z) ==
  /\ R(z, Executor) = A(z, Executor) + Ca(z, Executor)
  /\ \A n \in DOMAIN p : /\ Pace(d, z, n) /\ Linear(p, z, n) /\ Filter(p, z, n)
                         /\ Appends(p, z, n) /\ Busy(p, d, z, n) /\ Ended(p, d, z, n)
                         /\ Skips(p, d, z, n) /\ Asked(p, z, n)
  /\ \A c \in Edges(p) : Edge(p, d, z, c) /\ Gets1(p, z, c) /\ Hears(p, z, c)

\* What has been popped.
Pops(p, z) == \A c \in Edges(p) : Up(z, Src(p, c)) = 1 =>
  z.nd[Src(p, c)].popped[c] = IF A(z, c) <= K(z, Src(p, c)) THEN A(z, c) ELSE K(z, Src(p, c))

-----------------------------------------------------------------------------
(* What the views always satisfy.                                          *)

Good(p, z) == /\ Good0(p, z.nd, z.st)
              /\ z.a \in [Edges(p) -> Nat] /\ z.r \in [Edges(p) -> Nat]

NodeViewOK(p, z, n) ==
  /\ Up(z, n) \in {0, 1} /\ K(z, n) \in Nat /\ En(z, n) \in {0, 1} /\ Ac(z, n) \in {0, 1}
  /\ Sk(z, n) \in {0, 1} /\ Fk(p, z, n) \in {0, 1}
  /\ Got(z, n, 1) \in {0, 1} /\ Got(z, n, 2) \in {0, 1}
  /\ Arg(z, n) \in 1 .. 2 /\ Pc(z, n) \in Pcs(p[n].op)
  /\ p[n].op # "source" => Arg(z, n) <= Arity(p, n)
  /\ Pc(z, n) \in {"first_left", "test", "left", "skip_left"} => Arg(z, n) = 1
  /\ Pc(z, n) \in {"first_right", "right"} => Arg(z, n) = 2
  /\ En(z, n) = 1 => Up(z, n) = 1
  /\ Up(z, n) = 0 => K(z, n) = 0
  /\ Ac(z, n) = 1 => Up(z, n) = 1 /\ En(z, n) = 0 /\ n \in ON(z)
  /\ n \in ON(z) => Up(z, n) = 1 /\ \E c \in Edges(p) : Src(p, c) = n /\ Ca(z, c) = 1

EdgeViewOK(p, z, c) ==
  /\ Ca(z, c) \in {0, 1} /\ A(z, c) \in Nat /\ R(z, c) \in Nat
  /\ Ca(z, c) = 1 => Src(p, c) \in ON(z)
  /\ Ca(z, c) = 1 /\ c = Executor => Sk(z, Src(p, c)) = 0
  /\ Ca(z, c) = 1 /\ c # Executor =>
       /\ Ac(z, c[1]) = 1 /\ Pc(z, c[1]) \in AskingPcs /\ Arg(z, c[1]) = c[2]
       /\ Sk(z, Src(p, c)) = 1 <=> Pc(z, c[1]) \in SkippingPcs

ViewOK(p, z) ==
  /\ \A n \in DOMAIN p : NodeViewOK(p, z, n)
  /\ \A c \in Edges(p) : EdgeViewOK(p, z, c)

\* n is the node of the call on top.
TopIs(p, z, n) ==
  /\ n \in DOMAIN p /\ n \in ON(z) /\ \A x \in ON(z) : n <= x /\ (x # n => Ac(z, x) = 1)
  /\ \A c \in Edges(p) : Ca(z, c) = 1 /\ c # Executor => n < c[1]

LEMMA Views ==
  ASSUME NEW p, NEW z, Good(p, z)
  PROVE  ViewOK(p, z) /\ IsPlan(p)
<1>1. IsPlan(p) /\ Shape(p, z.nd) /\ StackOK(p, z.nd, z.st)
  BY DEF Good, Good0
<1>2. StackView(p, z.nd, z.st)
  BY <1>1, HasStackView
<1>3. ASSUME NEW n \in DOMAIN p PROVE NodeViewOK(p, z, n)
  <2>1. NodeOK(p, n, z.nd[n])
    BY <1>1 DEF Shape
  <2>2. LocalOK(p, n, z.nd[n].local)
    BY <2>1, NodeParts
  <2>3. /\ Up(z, n) \in {0, 1} /\ En(z, n) \in {0, 1} /\ Ac(z, n) \in {0, 1}
        /\ Sk(z, n) \in {0, 1} /\ Fk(p, z, n) \in {0, 1}
        /\ Got(z, n, 1) \in {0, 1} /\ Got(z, n, 2) \in {0, 1}
        /\ En(z, n) = 1 => Up(z, n) = 1
        /\ Up(z, n) = 0 => K(z, n) = 0
    BY DEF Up, En, Ac, Sk, Fk, Got, K, El
  <2>4. K(z, n) \in Nat
    <3>1. z.nd[n].queue \in Seq(BOOLEAN)
      BY <2>1, NodeParts
    <3>2. QED
      BY <3>1 DEF K
  <2>5. /\ Arg(z, n) \in 1 .. 2 /\ Pc(z, n) \in Pcs(p[n].op)
        /\ p[n].op # "source" => Arg(z, n) <= Arity(p, n)
        /\ Pc(z, n) \in {"first_left", "test", "left", "skip_left"} => Arg(z, n) = 1
        /\ Pc(z, n) \in {"first_right", "right"} => Arg(z, n) = 2
    BY <2>2, LocalParts DEF Arg, Pc, LocalOK
  <2>6. Ac(z, n) = 1 => Up(z, n) = 1 /\ En(z, n) = 0 /\ n \in ON(z)
    BY <1>2 DEF StackView, Ac, Up, En, ON
  <2>7. n \in ON(z) => Up(z, n) = 1 /\ \E c \in Edges(p) : Src(p, c) = n /\ Ca(z, c) = 1
    <3> HAVE n \in ON(z)
    <3>1. Up(z, n) = 1
      BY <1>2 DEF StackView, Up, ON
    <3>2. PICK c \in Cal(z.st) : Src(p, c) = n
      BY <1>2 DEF StackView, ON
    <3>3. c \in Edges(p) /\ Ca(z, c) = 1
      BY <1>2, <3>2 DEF StackView, Ca
    <3>4. QED
      BY <3>1, <3>2, <3>3
  <2>8. QED
    BY <2>3, <2>4, <2>5, <2>6, <2>7 DEF NodeViewOK
<1>4. ASSUME NEW c \in Edges(p) PROVE EdgeViewOK(p, z, c)
  <2>1. Ca(z, c) \in {0, 1} /\ A(z, c) \in Nat /\ R(z, c) \in Nat
    BY DEF Ca, A, R, Good
  <2>2. CASE Ca(z, c) = 0
    BY <2>1, <2>2 DEF EdgeViewOK
  <2>3. CASE Ca(z, c) = 1
    <3>1. c \in Cal(z.st)
      BY <2>3 DEF Ca
    <3>2. /\ Src(p, c) \in ON(z)
          /\ c = Executor => Sk(z, Src(p, c)) = 0
          /\ c # Executor => /\ Ac(z, c[1]) = 1 /\ Pc(z, c[1]) \in AskingPcs /\ Arg(z, c[1]) = c[2]
                             /\ Sk(z, Src(p, c)) = 1 <=> Pc(z, c[1]) \in SkippingPcs
      <4>1. Src(p, c) \in ON(z) /\ Src(p, c) \in DOMAIN p
        BY <1>2, <3>1 DEF StackView, ON
      <4>2. NodeOK(p, Src(p, c), z.nd[Src(p, c)])
        BY <1>1, <4>1 DEF Shape
      <4>3. z.nd[Src(p, c)].skip \in BOOLEAN
        BY <4>1, <4>2, NodeParts
      <4>4. CASE c = Executor
        <5>1. ~ z.nd[Src(p, c)].skip
          BY <1>2, <3>1, <4>3, <4>4 DEF StackView
        <5>2. QED
          BY <4>1, <4>4, <5>1 DEF Sk
      <4>5. CASE c # Executor
        <5>1. /\ c[1] \in Act(z.st) /\ z.nd[c[1]].local.pc \in AskingPcs /\ c[2] = z.nd[c[1]].local.arg
              /\ z.nd[Src(p, c)].skip = (z.nd[c[1]].local.pc \in SkippingPcs)
          BY <1>2, <3>1, <4>5 DEF StackView
        <5>2. z.nd[Src(p, c)].skip <=> z.nd[c[1]].local.pc \in SkippingPcs
          BY <4>3, <5>1
        <5>3. Sk(z, Src(p, c)) = 1 <=> Pc(z, c[1]) \in SkippingPcs
          BY <5>2 DEF Sk, Pc
        <5>4. QED
          BY <4>1, <4>5, <5>1, <5>3 DEF Ac, Pc, Arg
      <4>6. QED
        BY <4>4, <4>5
    <3>3. QED
      BY <2>1, <3>2 DEF EdgeViewOK
  <2>4. QED
    BY <2>1, <2>2, <2>3
<1>5. QED
  BY <1>1, <1>3, <1>4 DEF ViewOK

LEMMA TopIsTop ==
  ASSUME NEW p, NEW z, Good(p, z), z.st # <<>>
  PROVE  /\ TopIs(p, z, TopOf(z.st).node)
         /\ TopOf(z.st).inside <=> Ac(z, TopOf(z.st).node) = 1
         /\ TopOf(z.st).consumer \in Edges(p) /\ Ca(z, TopOf(z.st).consumer) = 1
         /\ Src(p, TopOf(z.st).consumer) = TopOf(z.st).node
<1>1. Good0(p, z.nd, z.st) /\ IsPlan(p) /\ StackOK(p, z.nd, z.st)
  BY DEF Good, Good0
<1>2. PICK f : f = TopOf(z.st)
  OBVIOUS
<1>3. TopView(z.st, f)
  BY <1>1, <1>2, HasTopView DEF TopOf
<1>4. f.node \in DOMAIN p /\ f.consumer \in Edges(p) /\ Src(p, f.consumer) = f.node
  BY <1>1, <1>2, TopTyped
<1>5. f.inside <=> Ac(z, f.node) = 1
  BY <1>3 DEF TopView, Ac
<1>6. Ca(z, f.consumer) = 1
  BY <1>3 DEF TopView, Ca
<1>7. \A x \in ON(z) : f.node <= x /\ (x # f.node => Ac(z, x) = 1)
  BY <1>3 DEF TopView, Ac, ON
<1>8. \A c \in Edges(p) : Ca(z, c) = 1 /\ c # Executor => f.node < c[1]
  BY <1>3 DEF TopView, Ca
<1>9. f.node \in ON(z)
  BY <1>3 DEF TopView, ON
<1>10. TopIs(p, z, f.node)
  BY <1>4, <1>7, <1>8, <1>9 DEF TopIs
<1>11. QED
  BY <1>2, <1>4, <1>5, <1>6, <1>10
-----------------------------------------------------------------------------
(* The drivers.                                                            *)

\* D can drive node n: the executor, the right input of a filter or an input of
\* an append, of a node after n.
IsDriverOf(p, n, D) ==
  \/ D = Executor
  \/ /\ D # Executor /\ D = <<D[1], D[2]>> /\ D[1] \in DOMAIN p /\ D[2] \in 1 .. 2 /\ n < D[1]
     /\ (p[D[1]].op = "filter" /\ D[2] = 2) \/ p[D[1]].op = "append"

LEMMA DriverShape ==
  ASSUME NEW p, IsPlan(p), NEW d, IsDriver(p, d)
  PROVE  \A n \in DOMAIN p : IsDriverOf(p, n, d[n]) /\ d[n] \in Edges(p)
<1>1. PICK l \in Nat \ {0} : l = Len(p) /\ DOMAIN p = 1 .. l /\ l \in 1 .. l
  BY PlanShape
<1> DEFINE bad == {n \in 1 .. l : ~ IsDriverOf(p, n, d[n])}
<1>2. bad = {}
  <2> SUFFICES ASSUME bad # {} PROVE FALSE
    OBVIOUS
  <2>1. bad \in SUBSET (0 .. l) /\ l \in Nat
    OBVIOUS
  <2>2. PICK n \in bad : \A k \in bad : k <= n
    BY <2>1, Greatest
  <2>3. n \in 1 .. l /\ n \in DOMAIN p /\ ~ IsDriverOf(p, n, d[n])
    BY <1>1
  <2>4. PICK c \in Edges(p) : Src(p, c) = n
    BY <2>3, HasConsumer
  <2>5. CASE c = Executor
    BY <2>3, <2>4, <2>5, EdgeShape DEF IsDriver, IsDriverOf
  <2>6. CASE c # Executor
    <3>1. PICK m \in DOMAIN p, i \in 1 .. 2 :
            c = <<m, i>> /\ i \in 1 .. Arity(p, m) /\ p[m].in[i] = n /\ n < m
      BY <2>4, <2>6, EdgeShape
    <3>2. m \in 1 .. l /\ m # 0 /\ n \in Nat /\ m \in Nat /\ i \in DOMAIN p[m].in
      BY <1>1, <2>3, <3>1, PlanShape
    <3>3. d[n] = PaceOf(p, d, m, i)
      BY <3>1, <3>2 DEF IsDriver
    <3>4. p[m].op \in {"linear", "filter", "append"}
      BY <3>1, PlanShape, PlanArity
    <3>5. CASE p[m].op = "linear"
      <4>1. d[n] = d[m]
        BY <3>3, <3>5 DEF PaceOf
      <4>2. m \notin bad
        BY <2>2, <3>1, <3>2
      <4>3. IsDriverOf(p, m, d[m])
        BY <3>2, <4>2
      <4>4. CASE d[m] = Executor
        BY <2>3, <4>1, <4>4 DEF IsDriverOf
      <4>5. CASE d[m] # Executor
        <5>1. /\ d[m] = <<d[m][1], d[m][2]>> /\ d[m][1] \in DOMAIN p /\ d[m][2] \in 1 .. 2 /\ m < d[m][1]
              /\ (p[d[m][1]].op = "filter" /\ d[m][2] = 2) \/ p[d[m][1]].op = "append"
          BY <4>3, <4>5 DEF IsDriverOf
        <5>2. n < d[m][1]
          BY <1>1, <3>1, <3>2, <5>1
        <5>3. QED
          BY <2>3, <4>1, <4>5, <5>1, <5>2 DEF IsDriverOf
      <4>6. QED
        BY <4>4, <4>5
    <3>6. CASE p[m].op = "filter"
      <4>1. PICK D : D = <<m, 2>>
        OBVIOUS
      <4>2. D[1] = m /\ D[2] = 2 /\ D # Executor /\ d[n] = D
        BY <3>2, <3>3, <3>6, <4>1 DEF PaceOf, Executor
      <4>3. QED
        BY <2>3, <3>1, <3>6, <4>1, <4>2 DEF IsDriverOf
    <3>7. CASE p[m].op = "append"
      <4>1. c[1] = m /\ c[2] = i /\ d[n] = c
        BY <3>1, <3>3, <3>7 DEF PaceOf
      <4>2. QED
        BY <2>3, <2>6, <3>1, <3>7, <4>1 DEF IsDriverOf
    <3>8. QED
      BY <3>4, <3>5, <3>6, <3>7
  <2>7. QED
    BY <2>5, <2>6
<1>3. ASSUME NEW n \in DOMAIN p PROVE IsDriverOf(p, n, d[n]) /\ d[n] \in Edges(p)
  <2>1. IsDriverOf(p, n, d[n])
    BY <1>1, <1>2
  <2>2. CASE d[n] = Executor
    BY <2>1, <2>2 DEF Edges
  <2>3. CASE d[n] # Executor
    <3>1. /\ d[n] = <<d[n][1], d[n][2]>> /\ d[n][1] \in DOMAIN p /\ d[n][2] \in 1 .. 2
          /\ p[d[n][1]].op \in {"filter", "append"}
      BY <2>1, <2>3 DEF IsDriverOf
    <3>2. Arity(p, d[n][1]) = 2
      BY <3>1, PlanArity
    <3>3. QED
      BY <2>1, <3>1, <3>2, IsEdge
  <2>4. QED
    BY <2>2, <2>3
<1>4. QED
  BY <1>3

\* The driver of the node that a consumer reads.
LEMMA DriverOf ==
  ASSUME NEW p, IsPlan(p), NEW d, IsDriver(p, d), NEW c \in Edges(p)
  PROVE  /\ c = Executor => d[Src(p, c)] = Executor
         /\ c # Executor /\ p[c[1]].op = "linear" => d[Src(p, c)] = d[c[1]]
         /\ c # Executor /\ p[c[1]].op = "filter" => d[Src(p, c)] = <<c[1], 2>>
         /\ c # Executor /\ p[c[1]].op = "append" => d[Src(p, c)] = c
         /\ c # Executor => p[c[1]].op \in {"linear", "filter", "append"}
<1>1. CASE c = Executor
  BY <1>1, EdgeShape DEF IsDriver
<1>2. CASE c # Executor
  <2>1. PICK m \in DOMAIN p, i \in 1 .. 2 :
          c = <<m, i>> /\ i \in 1 .. Arity(p, m) /\ Src(p, c) = p[m].in[i]
    BY <1>2, EdgeShape
  <2>2. i \in DOMAIN p[m].in /\ p[m].op \in {"linear", "filter", "append"} /\ c[1] = m /\ c[2] = i
    BY <2>1, PlanShape, PlanArity
  <2>3. d[Src(p, c)] = PaceOf(p, d, m, i)
    BY <2>1, <2>2 DEF IsDriver
  <2>4. QED
    BY <1>2, <2>1, <2>2, <2>3 DEF PaceOf
<1>3. QED
  BY <1>1, <1>2

-----------------------------------------------------------------------------
(* What follows from the invariant.                                        *)

\* The state, the drivers and the control.
Ctl(p, d, z) == Good(p, z) /\ IsDriver(p, d) /\ Control(p, d, z)

LEMMA CtlParts ==
  ASSUME NEW p, NEW d, NEW z, Ctl(p, d, z)
  PROVE  /\ IsPlan(p) /\ ViewOK(p, z)
         /\ \A n \in DOMAIN p : /\ n \in Nat /\ NodeViewOK(p, z, n) /\ d[n] \in Edges(p)
                                /\ IsDriverOf(p, n, d[n]) /\ R(z, d[n]) \in Nat
         /\ \A c \in Edges(p) : EdgeViewOK(p, z, c) /\ Src(p, c) \in DOMAIN p
         /\ \A n \in DOMAIN p : /\ Pace(d, z, n) /\ Linear(p, z, n) /\ Filter(p, z, n)
                                /\ Appends(p, z, n) /\ Busy(p, d, z, n) /\ Ended(p, d, z, n)
                                /\ Skips(p, d, z, n) /\ Asked(p, z, n)
         /\ \A c \in Edges(p) : Edge(p, d, z, c) /\ Gets1(p, z, c) /\ Hears(p, z, c)
         /\ R(z, Executor) = A(z, Executor) + Ca(z, Executor)
<1>1. IsPlan(p) /\ ViewOK(p, z)
  BY Views DEF Ctl
<1>2. \A n \in DOMAIN p : n \in Nat
  BY <1>1, PlanShape
<1>3. \A c \in Edges(p) : EdgeViewOK(p, z, c) /\ Src(p, c) \in DOMAIN p
  BY <1>1, EdgeShape DEF ViewOK
<1>4. \A n \in DOMAIN p : IsDriverOf(p, n, d[n]) /\ d[n] \in Edges(p)
  BY <1>1, DriverShape DEF Ctl
<1>5. \A n \in DOMAIN p : R(z, d[n]) \in Nat
  BY <1>3, <1>4 DEF EdgeViewOK
<1>6. QED
  BY <1>1, <1>2, <1>3, <1>4, <1>5 DEF Ctl, Control, ViewOK

\* A node that runs is one block behind its driver.
LEMMA ActivePace ==
  ASSUME NEW p, NEW d, NEW z, Ctl(p, d, z), NEW n \in DOMAIN p, Ac(z, n) = 1
  PROVE  K(z, n) + 1 = R(z, d[n])
<1>1. /\ NodeViewOK(p, z, n) /\ Pace(d, z, n) /\ R(z, d[n]) \in Nat
      /\ \A c \in Edges(p) : EdgeViewOK(p, z, c) /\ Edge(p, d, z, c)
  BY CtlParts
<1>2. En(z, n) = 0 /\ n \in ON(z) /\ K(z, n) \in Nat
  BY <1>1 DEF NodeViewOK
<1>3. PICK c \in Edges(p) : Src(p, c) = n /\ Ca(z, c) = 1
  BY <1>1, <1>2 DEF NodeViewOK
<1>4. A(z, c) \in Nat /\ A(z, c) + 1 <= R(z, d[n]) /\ R(z, d[n]) <= A(z, c) + 1 /\ ~ (A(z, c) > K(z, n))
  BY <1>1, <1>2, <1>3 DEF EdgeViewOK, Edge
<1>5. K(z, n) + 1 <= R(z, d[n])
  BY <1>1 DEF Pace
<1>6. QED
  BY <1>1, <1>2, <1>4, <1>5

\* What a consumer looks at is of the current round.
LEMMA SeesCurrent ==
  ASSUME NEW p, NEW d, NEW z, Ctl(p, d, z), NEW c \in Edges(p), Sees(p, z, c)
  PROVE  A(z, c) = R(z, d[Src(p, c)])
<1>1. /\ IsPlan(p) /\ IsDriver(p, d)
      /\ \A n \in DOMAIN p : /\ NodeViewOK(p, z, n) /\ Linear(p, z, n) /\ Filter(p, z, n)
                             /\ Appends(p, z, n)
      /\ EdgeViewOK(p, z, c)
  BY CtlParts DEF Ctl
<1>2. /\ c # Executor /\ c = <<c[1], c[2]>> /\ c[1] \in DOMAIN p /\ c[2] \in 1 .. Arity(p, c[1])
      /\ c[2] \in 1 .. 2
  BY <1>1, EdgeShape DEF Sees
<1>3. PICK m \in DOMAIN p, i \in 1 .. 2 : c = <<m, i>> /\ i \in 1 .. Arity(p, m) /\ c[1] = m /\ c[2] = i
  BY <1>2
<1>4. CASE p[m].op = "linear"
  <2>1. Ac(z, m) = 1 /\ (Pc(z, m) = "apply" \/ i < Arg(z, m))
    BY <1>3, <1>4 DEF Sees
  <2>2. A(z, c) = K(z, m) + 1
    BY <1>1, <1>3, <1>4, <2>1 DEF Linear
  <2>3. d[Src(p, c)] = d[m]
    BY <1>1, <1>2, <1>3, <1>4, DriverOf
  <2>4. QED
    BY <2>1, <2>2, <2>3, ActivePace
<1>5. CASE p[m].op = "filter"
  <2>1. d[Src(p, c)] = <<m, 2>>
    BY <1>1, <1>2, <1>3, <1>5, DriverOf
  <2>2. /\ Up(z, m) = 1
        /\ \/ Pc(z, m) \in {"first", "check", "rows"}
           \/ Pc(z, m) = "first_right" /\ i = 1
           \/ Pc(z, m) \in {"test", "left", "skip_left"} /\ i = 2
    BY <1>3, <1>5 DEF Sees
  <2>3. FilterAt(Pc(z, m), A(z, <<m, 1>>), A(z, <<m, 2>>), R(z, <<m, 2>>),
                 Ca(z, <<m, 1>>), Ca(z, <<m, 2>>))
    BY <1>1, <1>5, <2>2 DEF Filter
  <2>4. CASE i = 1
    <3>1. A(z, <<m, 1>>) = R(z, <<m, 2>>)
      BY <2>2, <2>3, <2>4 DEF FilterAt
    <3>2. QED
      BY <1>3, <2>1, <2>4, <3>1
  <2>5. CASE i = 2
    <3>1. A(z, <<m, 2>>) = R(z, <<m, 2>>)
      BY <2>2, <2>3, <2>5 DEF FilterAt
    <3>2. QED
      BY <1>3, <2>1, <2>5, <3>1
  <2>6. QED
    BY <2>4, <2>5
<1>6. CASE p[m].op = "append"
  <2>1. d[Src(p, c)] = c
    BY <1>1, <1>2, <1>3, <1>6, DriverOf
  <2>2. Pc(z, m) = "copy"
    BY <1>3, <1>6 DEF Sees
  <2>3. Ca(z, c) = 0 /\ A(z, c) \in Nat
    BY <1>1, <1>2, <1>3, <2>2 DEF EdgeViewOK, AskingPcs
  <2>4. R(z, c) = A(z, c) + Ca(z, c)
    BY <1>1, <1>3, <1>6 DEF Appends
  <2>5. QED
    BY <2>1, <2>3, <2>4
<1>7. QED
  BY <1>1, <1>2, <1>3, <1>4, <1>5, <1>6, DriverOf

\* A node does not run while a consumer still looks at its last block.
LEMMA SeenIsQuiet ==
  ASSUME NEW p, NEW d, NEW z, Ctl(p, d, z), NEW c \in Edges(p), Sees(p, z, c)
  PROVE  Ac(z, Src(p, c)) = 0
<1>1. PICK n : n = Src(p, c)
  OBVIOUS
<1>2. n \in DOMAIN p /\ Gets1(p, z, c)
  BY <1>1, CtlParts
<1>3. NodeViewOK(p, z, n) /\ R(z, d[n]) \in Nat
  BY <1>2, CtlParts
<1>4. A(z, c) = R(z, d[n])
  BY <1>1, SeesCurrent
<1>5. CASE Ac(z, n) = 1
  <2>1. K(z, n) + 1 = R(z, d[n])
    BY <1>2, <1>5, ActivePace
  <2>2. En(z, n) = 0 /\ K(z, n) \in Nat
    BY <1>3, <1>5 DEF NodeViewOK
  <2>3. QED
    BY <1>1, <1>2, <1>4, <2>1, <2>2 DEF Gets1
<1>6. QED
  BY <1>1, <1>3, <1>5 DEF NodeViewOK
-----------------------------------------------------------------------------
(* The nodes of a driver at the start of a round.                          *)

\* No node of driver D is being asked.
Quiet(p, d, z, D) == \A n \in DOMAIN p : d[n] = D => n \notin ON(z)

LEMMA QuietInside ==
  ASSUME NEW p, NEW d, NEW z, Ctl(p, d, z), NEW m \in DOMAIN p,
         p[m].op \in {"filter", "append"},
         \A i \in 1 .. 2 : Ca(z, <<m, i>>) = 0, NEW j \in 1 .. 2
  PROVE  Quiet(p, d, z, <<m, j>>)
<1> SUFFICES ASSUME NEW n \in DOMAIN p, d[n] = <<m, j>>, n \in ON(z) PROVE FALSE
  BY DEF Quiet
<1>1. Busy(p, d, z, n) /\ m # 0
  BY CtlParts, PlanShape
<1>2. d[n] # Executor /\ d[n][1] = m
  BY <1>1 DEF Executor
<1>3. QED
  BY <1>1, <1>2 DEF Busy

LEMMA QuietExecutor ==
  ASSUME NEW p, NEW d, NEW z, ON(z) = {}
  PROVE  Quiet(p, d, z, Executor)
BY DEF Quiet

\* None of them has ended if those of their consumers that are not linear would
\* know.
LEMMA NoneEnded ==
  ASSUME NEW p, NEW d, NEW z, Ctl(p, d, z), z.go, NEW D, Quiet(p, d, z, D),
         \A c \in Edges(p) :
           (d[Src(p, c)] = D /\ (c = Executor \/ p[c[1]].op # "linear")
            /\ En(z, Src(p, c)) = 1 /\ A(z, c) = K(z, Src(p, c)) + 1 /\ A(z, c) = R(z, D)) =>
           ~ Over(p, z, c)
  PROVE  \A n \in DOMAIN p : d[n] = D /\ p[n].op = "linear" => En(z, n) = 0
<1>1. PICK l \in Nat \ {0} : l = Len(p) /\ DOMAIN p = 1 .. l
  BY CtlParts, PlanShape
<1> DEFINE bad == {n \in 1 .. l : d[n] = D /\ p[n].op = "linear" /\ En(z, n) # 0}
<1>2. bad = {}
  <2> SUFFICES ASSUME bad # {} PROVE FALSE
    OBVIOUS
  <2>1. bad \in SUBSET (0 .. l) /\ l \in Nat
    OBVIOUS
  <2>2. PICK n \in bad : \A k \in bad : k <= n
    BY <2>1, Greatest
  <2>3. n \in DOMAIN p /\ d[n] = D /\ p[n].op = "linear" /\ En(z, n) # 0
    BY <1>1
  <2>4. NodeViewOK(p, z, n) /\ Ended(p, d, z, n)
    BY <2>3, CtlParts
  <2>5. En(z, n) = 1 /\ K(z, n) \in Nat
    BY <2>3, <2>4 DEF NodeViewOK
  <2>6. R(z, D) = K(z, n) + 1
    BY <2>3, <2>4, <2>5 DEF Ended
  <2>7. PICK c \in Edges(p) : Src(p, c) = n /\ (Ca(z, c) = 1 \/ A(z, c) = R(z, D))
    BY <2>3, <2>4, <2>5 DEF Ended
  <2>8. EdgeViewOK(p, z, c) /\ Hears(p, z, c)
    BY CtlParts
  <2>9. A(z, c) = R(z, D) /\ A(z, c) = K(z, n) + 1
    BY <2>3, <2>6, <2>7, <2>8 DEF EdgeViewOK, Quiet
  <2>10. Over(p, z, c)
    BY <2>3, <2>5, <2>7, <2>8, <2>9 DEF Hears
  <2>11. c # Executor /\ p[c[1]].op = "linear"
    BY <2>3, <2>5, <2>7, <2>9, <2>10
  <2>12. c[1] \in DOMAIN p /\ d[c[1]] = D /\ n < c[1]
    <3>1. IsPlan(p) /\ IsDriver(p, d)
      BY CtlParts DEF Ctl
    <3>2. QED
      BY <2>3, <2>7, <2>11, <3>1, DriverOf, EdgeShape
  <2>13. NodeViewOK(p, z, c[1])
    BY <2>12, CtlParts
  <2>14. Ac(z, c[1]) # 1
    BY <2>12, <2>13 DEF NodeViewOK, Quiet
  <2>15. En(z, c[1]) = 1
    BY <2>10, <2>11, <2>14 DEF Over, Sees
  <2>16. c[1] \in bad
    BY <1>1, <2>11, <2>12, <2>15
  <2>17. c[1] <= n /\ c[1] \in Nat /\ n \in Nat
    BY <1>1, <2>2, <2>12, <2>16
  <2>18. QED
    BY <2>12, <2>17
<1>3. ASSUME NEW n \in DOMAIN p, d[n] = D, p[n].op = "linear" PROVE En(z, n) = 0
  BY <1>1, <1>2, <1>3
<1>4. QED
  BY <1>3

\* D is about to ask for the next block.
RoundStart(p, z, D) ==
  \/ D = Executor /\ ON(z) = {} /\ z.pc = "call"
  \/ /\ D # Executor /\ D = <<D[1], D[2]>> /\ D[1] \in DOMAIN p /\ D[2] \in 1 .. 2
     /\ Up(z, D[1]) = 1 /\ \A i \in 1 .. 2 : Ca(z, <<D[1], i>>) = 0
     /\ \/ p[D[1]].op = "filter" /\ D[2] = 2 /\ Pc(z, D[1]) \in {"first_left", "right"}
        \/ p[D[1]].op = "append" /\ Pc(z, D[1]) = "get" /\ Arg(z, D[1]) = D[2]

LEMMA RoundStartOver ==
  ASSUME NEW p, NEW d, NEW z, Ctl(p, d, z), NEW D, RoundStart(p, z, D),
         NEW c \in Edges(p), d[Src(p, c)] = D, c = Executor \/ p[c[1]].op # "linear"
  PROVE  /\ ~ Over(p, z, c)
         /\ A(z, c) = R(z, D)
<1>0. EdgeViewOK(p, z, c) /\ IsPlan(p) /\ IsDriver(p, d)
  BY CtlParts DEF Ctl
<1>1. CASE c = Executor
  <2>1. D = Executor
    BY <1>0, <1>1, DriverOf
  <2>2. ON(z) = {} /\ z.pc = "call"
    BY <2>1 DEF RoundStart
  <2>3. Ca(z, c) = 0 /\ A(z, c) \in Nat
    BY <1>0, <2>2 DEF EdgeViewOK
  <2>4. R(z, D) = A(z, c) + Ca(z, c)
    BY <1>1, <2>1, CtlParts
  <2>5. QED
    BY <1>1, <2>2, <2>3, <2>4 DEF Over
<1>2. CASE c # Executor
  <2>1. PICK m \in DOMAIN p, i \in 1 .. 2 : c = <<m, i>> /\ i \in 1 .. Arity(p, m) /\ c[1] = m /\ c[2] = i
    BY <1>0, <1>2, EdgeShape
  <2>2. p[m].op \in {"filter", "append"} /\ m # 0
    BY <1>0, <1>2, <2>1, DriverOf, PlanShape
  <2>3. CASE p[m].op = "filter"
    <3>1. D = <<m, 2>>
      BY <1>0, <1>2, <2>1, <2>3, DriverOf
    <3>2. D # Executor /\ D[1] = m
      BY <2>2, <3>1 DEF Executor
    <3>3. Up(z, m) = 1 /\ Pc(z, m) \in {"first_left", "right"} /\ \A j \in 1 .. 2 : Ca(z, <<m, j>>) = 0
      BY <2>3, <3>2 DEF RoundStart
    <3>4. FilterAt(Pc(z, m), A(z, <<m, 1>>), A(z, <<m, 2>>), R(z, <<m, 2>>),
                   Ca(z, <<m, 1>>), Ca(z, <<m, 2>>))
      BY <2>3, <3>3, CtlParts DEF Filter
    <3>5. <<m, 1>> \in Edges(p) /\ <<m, 2>> \in Edges(p)
      BY <1>0, <2>3, PlanArity, IsEdge
    <3>6. /\ A(z, <<m, 1>>) \in Nat /\ A(z, <<m, 2>>) \in Nat
          /\ Ca(z, <<m, 1>>) = 0 /\ Ca(z, <<m, 2>>) = 0
      BY <3>3, <3>5, CtlParts DEF EdgeViewOK
    <3>7. A(z, <<m, 1>>) = R(z, <<m, 2>>) /\ A(z, <<m, 2>>) = R(z, <<m, 2>>)
      BY <3>3, <3>4, <3>6 DEF FilterAt
    <3>8. A(z, c) = R(z, D)
      BY <2>1, <3>1, <3>7
    <3>9. ~ Over(p, z, c)
      BY <1>2, <2>1, <2>3, <3>3 DEF Over, Sees
    <3>10. QED
      BY <3>8, <3>9
  <2>4. CASE p[m].op = "append"
    <3>1. D = c
      BY <1>0, <1>2, <2>1, <2>4, DriverOf
    <3>2. Pc(z, m) = "get" /\ Arg(z, m) = i /\ Ca(z, c) = 0
      BY <1>2, <2>1, <2>4, <3>1 DEF RoundStart
    <3>3. R(z, c) = A(z, c) + Ca(z, c) /\ A(z, c) \in Nat
      <4>1. Appends(p, z, m)
        BY CtlParts
      <4>2. R(z, <<m, i>>) = A(z, <<m, i>>) + Ca(z, <<m, i>>)
        BY <2>4, <4>1 DEF Appends
      <4>3. QED
        BY <1>0, <2>1, <4>2 DEF EdgeViewOK
    <3>4. A(z, c) = R(z, D)
      BY <3>1, <3>2, <3>3
    <3>5. ~ Over(p, z, c)
      BY <1>2, <2>1, <2>4, <3>2 DEF Over, Sees
    <3>6. QED
      BY <3>4, <3>5
  <2>5. QED
    BY <2>2, <2>3, <2>4
<1>3. QED
  BY <1>1, <1>2

\* At the start of a round nobody has ended and everybody has asked.
LEMMA RoundStarts ==
  ASSUME NEW p, NEW d, NEW z, Ctl(p, d, z), z.go, NEW D, RoundStart(p, z, D)
  PROVE  /\ Quiet(p, d, z, D)
         /\ \A n \in DOMAIN p : d[n] = D /\ p[n].op = "linear" => En(z, n) = 0
         /\ \A c \in Edges(p) : d[Src(p, c)] = D => A(z, c) = R(z, D)
<1>1. Quiet(p, d, z, D)
  <2>1. CASE D = Executor
    BY <2>1, QuietExecutor DEF RoundStart
  <2>2. CASE D # Executor
    <3>1. /\ D = <<D[1], D[2]>> /\ D[1] \in DOMAIN p /\ D[2] \in 1 .. 2
          /\ p[D[1]].op \in {"filter", "append"} /\ \A i \in 1 .. 2 : Ca(z, <<D[1], i>>) = 0
      BY <2>2 DEF RoundStart
    <3>2. Quiet(p, d, z, <<D[1], D[2]>>)
      BY <3>1, QuietInside
    <3>3. QED
      BY <3>1, <3>2
  <2>3. QED
    BY <2>1, <2>2
<1>2. \A n \in DOMAIN p : d[n] = D /\ p[n].op = "linear" => En(z, n) = 0
  BY <1>1, RoundStartOver, NoneEnded
<1>3. PICK l \in Nat \ {0} : l = Len(p) /\ DOMAIN p = 1 .. l
  BY CtlParts, PlanShape
<1> DEFINE late(n) == \E c \in Edges(p) : Src(p, c) = n /\ A(z, c) # R(z, D)
           bad == {n \in 1 .. l : d[n] = D /\ late(n)}
<1>4. bad = {}
  <2> SUFFICES ASSUME bad # {} PROVE FALSE
    OBVIOUS
  <2>1. bad \in SUBSET (0 .. l) /\ l \in Nat
    OBVIOUS
  <2>2. PICK n \in bad : \A k \in bad : k <= n
    BY <2>1, Greatest
  <2>3. n \in DOMAIN p /\ d[n] = D
    BY <1>3
  <2>4. PICK c \in Edges(p) : Src(p, c) = n /\ A(z, c) # R(z, D)
    OBVIOUS
  <2>5. c # Executor /\ p[c[1]].op = "linear"
    BY <2>3, <2>4, RoundStartOver
  <2>6. IsPlan(p) /\ IsDriver(p, d)
    BY CtlParts DEF Ctl
  <2>7. PICK m \in DOMAIN p, i \in 1 .. 2 :
          c = <<m, i>> /\ i \in 1 .. Arity(p, m) /\ c[1] = m /\ c[2] = i /\ n < m
    BY <2>4, <2>5, <2>6, EdgeShape
  <2>8. d[m] = D
    BY <2>3, <2>4, <2>5, <2>6, <2>7, DriverOf
  <2>9. NodeViewOK(p, z, m) /\ Linear(p, z, m) /\ Pace(d, z, m) /\ R(z, D) \in Nat
    BY <2>7, <2>8, CtlParts
  <2>10. En(z, m) = 0 /\ Ac(z, m) = 0 /\ K(z, m) \in Nat
    BY <1>1, <1>2, <2>5, <2>7, <2>8, <2>9 DEF Quiet, NodeViewOK
  <2>11. A(z, c) = K(z, m)
    BY <2>5, <2>7, <2>9, <2>10 DEF Linear
  <2>12. m \notin bad
    <3>1. m \in Nat /\ n \in Nat
      BY <1>3, <2>3, <2>7
    <3>2. QED
      BY <2>2, <2>7, <3>1
  <2>13. PICK e \in Edges(p) : Src(p, e) = m
    BY <2>6, HasConsumer
  <2>14. A(z, e) = R(z, D)
    BY <1>3, <2>7, <2>8, <2>12, <2>13
  <2>15. Edge(p, d, z, e)
    BY CtlParts
  <2>16. ~ (A(z, e) > K(z, m))
    BY <2>10, <2>13, <2>15 DEF Edge
  <2>17. K(z, m) + En(z, m) <= R(z, D)
    BY <2>8, <2>9 DEF Pace
  <2>18. QED
    BY <2>4, <2>9, <2>10, <2>11, <2>14, <2>16, <2>17
<1>5. ASSUME NEW c \in Edges(p), d[Src(p, c)] = D PROVE A(z, c) = R(z, D)
  <2>1. Src(p, c) \in 1 .. l
    BY <1>3, CtlParts
  <2>2. QED
    BY <1>4, <1>5, <2>1
<1>6. QED
  BY <1>1, <1>2, <1>5

-----------------------------------------------------------------------------
(* The steps, as the views show them.  z is the state before and z2 the    *)
(* state after a step.                                                     *)

SameAt(p, z, z2, x) ==
  /\ Up(z2, x) = Up(z, x) /\ K(z2, x) = K(z, x) /\ En(z2, x) = En(z, x)
  /\ Sk(z2, x) = Sk(z, x) /\ Fk(p, z2, x) = Fk(p, z, x) /\ El(z2, x) = El(z, x)
  /\ Pc(z2, x) = Pc(z, x) /\ Arg(z2, x) = Arg(z, x)
  /\ Got(z2, x, 1) = Got(z, x, 1) /\ Got(z2, x, 2) = Got(z, x, 2)

SameCalls(p, z, z2) == ON(z2) = ON(z) /\ \A c \in Edges(p) : Ca(z2, c) = Ca(z, c)

SameHistory(p, z, z2) == /\ \A c \in Edges(p) : A(z2, c) = A(z, c) /\ R(z2, c) = R(z, c)
                         /\ z2.go <=> z.go
                         /\ z2.pc = z.pc

\* A step of the operator of n, which keeps the stack and the histories.
OwnStep(p, z, z2, n) ==
  /\ TopIs(p, z, n) /\ SameCalls(p, z, z2) /\ SameHistory(p, z, z2)
  /\ \A x \in DOMAIN p : x # n => SameAt(p, z, z2, x) /\ Ac(z2, x) = Ac(z, x)
  /\ Up(z2, n) = Up(z, n) /\ Sk(z2, n) = Sk(z, n)
  /\ Got(z2, n, 1) = Got(z, n, 1) /\ Got(z2, n, 2) = Got(z, n, 2)

CEnd(p, z, z2, n) ==
  /\ OwnStep(p, z, z2, n) /\ Ac(z, n) = 1 /\ Ac(z2, n) = 0
  /\ En(z2, n) = 1 /\ K(z2, n) = K(z, n) /\ Pc(z2, n) = Pc(z, n) /\ Arg(z2, n) = Arg(z, n)
  /\ Fk(p, z2, n) = Fk(p, z, n) /\ El(z2, n) = El(z, n)
  /\ p[n].op = "linear" /\ z.go => Pc(z, n) = "apply"

CSink(p, z, z2, n) ==
  /\ OwnStep(p, z, z2, n) /\ Ac(z, n) = 1 /\ Ac(z2, n) = 0
  /\ En(z2, n) = En(z, n) /\ K(z2, n) = K(z, n) + 1 /\ Arg(z2, n) = Arg(z, n)
  /\ Pc(z2, n) = Pc(z, n) \/ (Pc(z, n) = "tail" /\ Pc(z2, n) = "end")
  /\ p[n].op = "source" => Fk(p, z2, n) = Fk(p, z, n) /\ El(z2, n) = 1
  /\ p[n].op \in {"filter", "append"} => Fk(p, z2, n) = 0
  /\ p[n].op = "linear" => \/ /\ Pc(z, n) = "apply" /\ Fk(p, z2, n) = 0
                              /\ \A i \in 1 .. Arity(p, n) : Got(z, n, i) = 1
                           \/ Pc(z, n) = "fake"

CResume(p, z, z2, n, c) ==
  /\ OwnStep(p, z, z2, n) /\ Ac(z, n) = 0 /\ Ac(z2, n) = 1
  /\ c \in Edges(p) /\ Src(p, c) = n /\ Ca(z, c) = 1 /\ A(z, c) >= K(z, n) /\ En(z, n) = 0
  /\ En(z2, n) = En(z, n) /\ K(z2, n) = K(z, n) /\ El(z2, n) = El(z, n)
  /\ p[n].op = "source" => Fk(p, z2, n) = Sk(z, n) /\ Pc(z2, n) = Pc(z, n)
  /\ p[n].op # "source" => Fk(p, z2, n) = Fk(p, z, n)
  /\ p[n].op \in {"filter", "append"} => Pc(z2, n) = Pc(z, n) /\ Arg(z2, n) = Arg(z, n)
  /\ p[n].op = "linear" => /\ Pc(z2, n) = IF Sk(z, n) = 1 THEN "drain" ELSE "get"
                           /\ Arg(z2, n) = 1

\* The moves of a filter and of an append between two calls.
CLocal(p, z, z2, n) ==
  /\ OwnStep(p, z, z2, n) /\ Ac(z, n) = 1 /\ Ac(z2, n) = 1
  /\ En(z2, n) = En(z, n) /\ K(z2, n) = K(z, n)
  /\ Fk(p, z2, n) = Fk(p, z, n) /\ El(z2, n) = El(z, n)
  /\ \/ /\ p[n].op = "filter"
        /\ \/ Pc(z, n) = "check" /\ Pc(z2, n) = "tail"
           \/ /\ Pc(z, n) \in {"first", "check"} /\ Pc(z2, n) = "rows"
              /\ Got(z, n, 1) = 1 /\ Got(z, n, 2) = 1
           \/ Pc(z, n) = "rows" /\ Pc(z2, n) \in {"rows", "right"}
           \/ Pc(z, n) = "test" /\ Pc(z2, n) = "left"
           \/ Pc(z, n) = "test" /\ Pc(z2, n) = "skip_left" /\ Got(z, n, 2) = 1
     \/ /\ p[n].op = "append" /\ Pc(z, n) = "copy"
        /\ \/ Pc(z2, n) = "tail" /\ Arg(z, n) = 2 /\ Arg(z2, n) = 2
           \/ Pc(z2, n) = "get" /\ Arg(z, n) = 1 /\ Arg(z2, n) = 2
           \/ Pc(z2, n) = "get" /\ Arg(z2, n) = Arg(z, n) /\ Got(z, n, Arg(z, n)) = 1
           \/ Pc(z2, n) = "copy" /\ Arg(z2, n) = Arg(z, n)
-----------------------------------------------------------------------------
(* What does not change.                                                   *)

LEMMA SeesFrame ==
  ASSUME NEW p, NEW z, NEW z2, NEW c,
         c # Executor => /\ Up(z2, c[1]) = Up(z, c[1]) /\ Ac(z2, c[1]) = Ac(z, c[1])
                         /\ Pc(z2, c[1]) = Pc(z, c[1]) /\ Arg(z2, c[1]) = Arg(z, c[1])
  PROVE  Sees(p, z2, c) <=> Sees(p, z, c)
BY DEF Sees

LEMMA OverFrame ==
  ASSUME NEW p, NEW z, NEW z2, NEW c, z2.pc = z.pc,
         c # Executor => /\ Up(z2, c[1]) = Up(z, c[1]) /\ Ac(z2, c[1]) = Ac(z, c[1])
                         /\ Pc(z2, c[1]) = Pc(z, c[1]) /\ Arg(z2, c[1]) = Arg(z, c[1])
                         /\ En(z2, c[1]) = En(z, c[1])
  PROVE  Over(p, z2, c) <=> Over(p, z, c)
<1>1. Sees(p, z2, c) <=> Sees(p, z, c)
  BY SeesFrame
<1>2. QED
  BY <1>1 DEF Over

LEMMA SkipFrame ==
  ASSUME NEW p, NEW z, NEW z2, NEW D,
         D # Executor => Up(z2, D[1]) = Up(z, D[1]) /\ Pc(z2, D[1]) = Pc(z, D[1]) /\ Ca(z2, D) = Ca(z, D)
  PROVE  /\ Skipping(p, z2, D) <=> Skipping(p, z, D)
         /\ Skipped(p, z2, D) <=> Skipped(p, z, D)
BY DEF Skipping, Skipped

\* The conjuncts about one node, and those about one consumer.
NodeCtl(p, d, z, n) ==
  /\ Pace(d, z, n) /\ Linear(p, z, n) /\ Filter(p, z, n) /\ Appends(p, z, n)
  /\ Busy(p, d, z, n) /\ Ended(p, d, z, n) /\ Skips(p, d, z, n) /\ Asked(p, z, n)

EdgeCtl(p, d, z, c) == Edge(p, d, z, c) /\ Gets1(p, z, c) /\ Hears(p, z, c)

LEMMA CtlBy ==
  ASSUME NEW p, NEW d, NEW z, Good(p, z), IsDriver(p, d),
         R(z, Executor) = A(z, Executor) + Ca(z, Executor),
         \A n \in DOMAIN p : NodeCtl(p, d, z, n),
         \A c \in Edges(p) : EdgeCtl(p, d, z, c)
  PROVE  Ctl(p, d, z)
BY DEF Ctl, Control, NodeCtl, EdgeCtl

\* What is known of node x before a step.
Known(p, d, z, x) ==
  /\ x \in Nat /\ NodeViewOK(p, z, x) /\ d[x] \in Edges(p) /\ IsDriverOf(p, x, d[x])
  /\ R(z, d[x]) \in Nat /\ NodeCtl(p, d, z, x)

KnownEdge(p, d, z, c) ==
  /\ EdgeViewOK(p, z, c) /\ EdgeCtl(p, d, z, c) /\ Known(p, d, z, Src(p, c)) /\ Src(p, c) \in DOMAIN p
  /\ c # Executor => /\ c[1] \in DOMAIN p /\ c = <<c[1], c[2]>> /\ c[2] \in 1 .. Arity(p, c[1])
                     /\ c[2] \in 1 .. 2 /\ Known(p, d, z, c[1])
                     /\ p[c[1]].op \in {"linear", "filter", "append"} /\ Src(p, c) # c[1]
                     /\ Src(p, c) < c[1]

LEMMA AllKnown ==
  ASSUME NEW p, NEW d, NEW z, Ctl(p, d, z)
  PROVE  /\ \A x \in DOMAIN p : Known(p, d, z, x)
         /\ \A c \in Edges(p) : KnownEdge(p, d, z, c)
         /\ IsPlan(p) /\ IsDriver(p, d) /\ Executor \in Edges(p)
<1>1. \A x \in DOMAIN p : Known(p, d, z, x)
  BY CtlParts DEF Known, NodeCtl
<1>2. IsPlan(p) /\ IsDriver(p, d)
  BY CtlParts DEF Ctl
<1>3. ASSUME NEW c \in Edges(p) PROVE KnownEdge(p, d, z, c)
  <2>1. EdgeViewOK(p, z, c) /\ EdgeCtl(p, d, z, c) /\ Src(p, c) \in DOMAIN p
    BY CtlParts DEF EdgeCtl
  <2>2. c # Executor => /\ c[1] \in DOMAIN p /\ c = <<c[1], c[2]>> /\ c[2] \in 1 .. Arity(p, c[1])
                        /\ c[2] \in 1 .. 2 /\ Src(p, c) < c[1]
    BY <1>2, EdgeShape
  <2>3. c # Executor => p[c[1]].op \in {"linear", "filter", "append"}
    BY <1>2, DriverOf
  <2>4. c # Executor => Src(p, c) # c[1]
    <3>1. Src(p, c) \in Nat
      BY <1>2, <2>1, PlanShape
    <3>2. QED
      BY <2>2, <3>1
  <2>5. QED
    BY <1>1, <2>1, <2>2, <2>3, <2>4 DEF KnownEdge
<1>4. QED
  BY <1>1, <1>2, <1>3 DEF Edges

\* The operator on top is not at a call.
LEMMA TopAsksNobody ==
  ASSUME NEW p, NEW d, NEW z, Ctl(p, d, z), NEW n, TopIs(p, z, n), NEW i \in 1 .. 2,
         <<n, i>> \in Edges(p)
  PROVE  Ca(z, <<n, i>>) = 0
<1>1. PICK c : c = <<n, i>>
  OBVIOUS
<1>2. n \in DOMAIN p /\ n \in Nat /\ n # 0
  BY AllKnown, PlanShape DEF TopIs
<1>3. c \in Edges(p) /\ c # Executor /\ c[1] = n
  BY <1>1, <1>2 DEF Executor
<1>4. Ca(z, c) \in {0, 1}
  BY <1>3, AllKnown DEF KnownEdge, EdgeViewOK
<1>5. Ca(z, c) # 1
  BY <1>2, <1>3 DEF TopIs
<1>6. QED
  BY <1>1, <1>4, <1>5

\* Nor is any node that it drives asked.
LEMMA TopDrivesNobody ==
  ASSUME NEW p, NEW d, NEW z, Ctl(p, d, z), NEW n, TopIs(p, z, n), NEW x \in DOMAIN p, x \in ON(z)
  PROVE  d[x] # Executor => d[x][1] # n
<1> SUFFICES ASSUME d[x] # Executor, d[x][1] = n PROVE FALSE
  OBVIOUS
<1>1. IsDriverOf(p, x, d[x]) /\ x \in Nat /\ n \in Nat
  BY AllKnown, PlanShape DEF Known, TopIs
<1>2. x < n
  BY <1>1 DEF IsDriverOf
<1>3. n <= x
  BY DEF TopIs
<1>4. QED
  BY <1>1, <1>2, <1>3

-----------------------------------------------------------------------------
(* The steps of the operator of n keep the control invariant.              *)

\* What any such step leaves alone.
LEMMA OwnRest ==
  ASSUME NEW p, NEW d, NEW z, NEW z2, NEW n, Ctl(p, d, z), Good(p, z2), OwnStep(p, z, z2, n)
  PROVE  /\ n \in DOMAIN p /\ n \in ON(z) /\ n \in Nat
         /\ \A x \in DOMAIN p : Busy(p, d, z2, x) /\ Asked(p, z2, x) /\ R(z2, d[x]) = R(z, d[x])
         /\ \A x \in DOMAIN p : x # n => /\ Pace(d, z2, x) /\ Linear(p, z2, x) /\ Filter(p, z2, x)
                                         /\ Appends(p, z2, x)
         /\ \A c \in Edges(p) : Src(p, c) # n => Edge(p, d, z2, c)
         /\ R(z2, Executor) = A(z2, Executor) + Ca(z2, Executor)
         /\ \A i \in 1 .. 2 : <<n, i>> \in Edges(p) => Ca(z, <<n, i>>) = 0
<1>1. /\ TopIs(p, z, n) /\ SameCalls(p, z, z2) /\ SameHistory(p, z, z2)
      /\ \A x \in DOMAIN p : x # n => SameAt(p, z, z2, x) /\ Ac(z2, x) = Ac(z, x)
      /\ Up(z2, n) = Up(z, n)
  BY DEF OwnStep
<1>2. n \in DOMAIN p /\ n \in ON(z)
  BY <1>1 DEF TopIs
<1>3. /\ \A x \in DOMAIN p : Known(p, d, z, x)
      /\ \A c \in Edges(p) : KnownEdge(p, d, z, c)
      /\ IsPlan(p) /\ IsDriver(p, d) /\ Executor \in Edges(p)
  BY AllKnown
<1>4. /\ ON(z2) = ON(z) /\ z2.pc = z.pc /\ (z2.go <=> z.go)
      /\ \A c \in Edges(p) : Ca(z2, c) = Ca(z, c) /\ A(z2, c) = A(z, c) /\ R(z2, c) = R(z, c)
  BY <1>1 DEF SameCalls, SameHistory
<1>5. ASSUME NEW x \in DOMAIN p PROVE R(z2, d[x]) = R(z, d[x])
  BY <1>3, <1>4 DEF Known
<1>6. ASSUME NEW x \in DOMAIN p PROVE Up(z2, x) = Up(z, x)
  BY <1>1 DEF SameAt
<1>7. ASSUME NEW x \in DOMAIN p PROVE Asked(p, z2, x)
  <2>1. Asked(p, z, x)
    BY <1>3 DEF Known, NodeCtl
  <2>2. \A c \in Edges(p) : c # Executor => Up(z2, c[1]) = Up(z, c[1])
    BY <1>3, <1>6 DEF KnownEdge
  <2>3. QED
    BY <1>6, <2>1, <2>2 DEF Asked
<1>8. ASSUME NEW x \in DOMAIN p PROVE Busy(p, d, z2, x)
  <2> SUFFICES ASSUME x \in ON(z2), d[x] # Executor
               PROVE  /\ Ac(z2, d[x][1]) = 1
                      /\ p[d[x][1]].op = "append" => Ca(z2, d[x]) = 1
                      /\ p[d[x][1]].op = "filter" => Ca(z2, <<d[x][1], 1>>) = 1 \/ Ca(z2, <<d[x][1], 2>>) = 1
    BY DEF Busy
  <2>1. x \in ON(z) /\ d[x][1] # n
    BY <1>1, <1>4, TopDrivesNobody
  <2>2. Known(p, d, z, x)
    BY <1>3
  <2>3. d[x] \in Edges(p) /\ d[x][1] \in DOMAIN p
    BY <2>2 DEF Known, IsDriverOf
  <2>4. /\ Ac(z, d[x][1]) = 1
        /\ p[d[x][1]].op = "append" => Ca(z, d[x]) = 1
        /\ p[d[x][1]].op = "filter" => Ca(z, <<d[x][1], 1>>) = 1 \/ Ca(z, <<d[x][1], 2>>) = 1
    BY <2>1, <2>2 DEF Known, NodeCtl, Busy
  <2>5. Ac(z2, d[x][1]) = 1
    BY <1>1, <2>1, <2>3, <2>4
  <2>6. p[d[x][1]].op = "filter" => <<d[x][1], 1>> \in Edges(p) /\ <<d[x][1], 2>> \in Edges(p)
    BY <1>3, <2>3, PlanArity, IsEdge
  <2>7. QED
    BY <1>4, <2>3, <2>4, <2>5, <2>6
<1>9. ASSUME NEW x \in DOMAIN p, x # n
      PROVE  Pace(d, z2, x) /\ Linear(p, z2, x) /\ Filter(p, z2, x) /\ Appends(p, z2, x)
  <2>1. /\ Pace(d, z, x) /\ Linear(p, z, x) /\ Filter(p, z, x) /\ Appends(p, z, x)
    BY <1>3 DEF Known, NodeCtl
  <2>2. SameAt(p, z, z2, x) /\ Ac(z2, x) = Ac(z, x)
    BY <1>1, <1>9
  <2>3. Pace(d, z2, x)
    BY <1>5, <2>1, <2>2 DEF Pace, SameAt
  <2>4. \A i \in 1 .. Arity(p, x) : <<x, i>> \in Edges(p)
    BY <1>3, IsEdge
  <2>5. \A i \in 1 .. Arity(p, x) : A(z2, <<x, i>>) = A(z, <<x, i>>)
    BY <1>4, <2>4
  <2>6. Linear(p, z2, x)
    BY <1>4, <2>1, <2>2, <2>5 DEF Linear, SameAt
  <2>7. p[x].op \in {"filter", "append"} =>
          \A i \in 1 .. 2 : /\ A(z2, <<x, i>>) = A(z, <<x, i>>) /\ R(z2, <<x, i>>) = R(z, <<x, i>>)
                            /\ Ca(z2, <<x, i>>) = Ca(z, <<x, i>>)
    BY <1>3, <1>4, <2>4, PlanArity
  <2>8. Filter(p, z2, x)
    <3> SUFFICES ASSUME p[x].op = "filter" PROVE Filter(p, z2, x)
      BY DEF Filter
    <3>1. /\ A(z2, <<x, 1>>) = A(z, <<x, 1>>) /\ A(z2, <<x, 2>>) = A(z, <<x, 2>>)
          /\ R(z2, <<x, 2>>) = R(z, <<x, 2>>)
          /\ Ca(z2, <<x, 1>>) = Ca(z, <<x, 1>>) /\ Ca(z2, <<x, 2>>) = Ca(z, <<x, 2>>)
      BY <2>7
    <3>2. QED
      BY <2>1, <2>2, <3>1 DEF Filter, SameAt
  <2>9. Appends(p, z2, x)
    <3> SUFFICES ASSUME p[x].op = "append" PROVE Appends(p, z2, x)
      BY DEF Appends
    <3>1. \A i \in 1 .. 2 : /\ A(z2, <<x, i>>) = A(z, <<x, i>>) /\ R(z2, <<x, i>>) = R(z, <<x, i>>)
                            /\ Ca(z2, <<x, i>>) = Ca(z, <<x, i>>)
      BY <2>7
    <3>2. QED
      BY <2>1, <2>2, <3>1 DEF Appends, SameAt
  <2>10. QED
    BY <2>3, <2>6, <2>8, <2>9
<1>10. ASSUME NEW c \in Edges(p), Src(p, c) # n PROVE Edge(p, d, z2, c)
  <2>1. Edge(p, d, z, c) /\ Src(p, c) \in DOMAIN p
    BY <1>3 DEF KnownEdge, EdgeCtl
  <2>2. SameAt(p, z, z2, Src(p, c)) /\ R(z2, d[Src(p, c)]) = R(z, d[Src(p, c)])
    BY <1>1, <1>5, <1>10, <2>1
  <2>3. QED
    BY <1>4, <2>1, <2>2 DEF Edge, SameAt
<1>11. R(z2, Executor) = A(z2, Executor) + Ca(z2, Executor)
  BY <1>3, <1>4, CtlParts
<1>12. \A i \in 1 .. 2 : <<n, i>> \in Edges(p) => Ca(z, <<n, i>>) = 0
  BY <1>1, TopAsksNobody
<1>13. n \in Nat
  BY <1>2, <1>3 DEF Known
<1>14. QED
  BY <1>2, <1>5, <1>7, <1>8, <1>9, <1>10, <1>11, <1>12, <1>13

\* Where the step does not touch them, the other conjuncts hold as well.
LEMMA OwnOther ==
  ASSUME NEW p, NEW d, NEW z, NEW z2, NEW n, Ctl(p, d, z), Good(p, z2), OwnStep(p, z, z2, n)
  PROVE  /\ \A x \in DOMAIN p : x # n /\ (d[x] = Executor \/ d[x][1] # n \/ Pc(z2, n) = Pc(z, n)) =>
              Ended(p, d, z2, x) /\ Skips(p, d, z2, x)
         /\ \A c \in Edges(p) : Src(p, c) # n /\ (c = Executor \/ c[1] # n) =>
              Gets1(p, z2, c) /\ Hears(p, z2, c)
<1>1. /\ TopIs(p, z, n) /\ SameCalls(p, z, z2) /\ SameHistory(p, z, z2)
      /\ \A x \in DOMAIN p : x # n => SameAt(p, z, z2, x) /\ Ac(z2, x) = Ac(z, x)
      /\ Up(z2, n) = Up(z, n)
  BY DEF OwnStep
<1>2. n \in DOMAIN p
  BY <1>1 DEF TopIs
<1>3. /\ \A x \in DOMAIN p : Known(p, d, z, x)
      /\ \A c \in Edges(p) : KnownEdge(p, d, z, c)
      /\ IsPlan(p) /\ IsDriver(p, d) /\ Executor \in Edges(p)
  BY AllKnown
<1>4. /\ ON(z2) = ON(z) /\ z2.pc = z.pc /\ (z2.go <=> z.go)
      /\ \A c \in Edges(p) : Ca(z2, c) = Ca(z, c) /\ A(z2, c) = A(z, c) /\ R(z2, c) = R(z, c)
  BY <1>1 DEF SameCalls, SameHistory
<1>5. ASSUME NEW x \in DOMAIN p, x # n, d[x] = Executor \/ d[x][1] # n \/ Pc(z2, n) = Pc(z, n)
      PROVE  Ended(p, d, z2, x) /\ Skips(p, d, z2, x)
  <2>1. Ended(p, d, z, x) /\ Skips(p, d, z, x) /\ d[x] \in Edges(p) /\ IsDriverOf(p, x, d[x])
    BY <1>3 DEF Known, NodeCtl
  <2>2. d[x] # Executor => d[x][1] \in DOMAIN p
    BY <2>1 DEF IsDriverOf
  <2>3. d[x] # Executor => Up(z2, d[x][1]) = Up(z, d[x][1]) /\ Pc(z2, d[x][1]) = Pc(z, d[x][1])
    BY <1>1, <1>5, <2>2 DEF SameAt
  <2>4. /\ Skipping(p, z2, d[x]) <=> Skipping(p, z, d[x])
        /\ Skipped(p, z2, d[x]) <=> Skipped(p, z, d[x])
    BY <1>4, <2>1, <2>3, SkipFrame
  <2>5. SameAt(p, z, z2, x) /\ Ac(z2, x) = Ac(z, x) /\ R(z2, d[x]) = R(z, d[x])
    BY <1>1, <1>4, <1>5, <2>1
  <2>6. Ended(p, d, z2, x)
    BY <1>4, <2>1, <2>4, <2>5 DEF Ended, SameAt
  <2>7. Skips(p, d, z2, x)
    BY <1>4, <2>1, <2>4, <2>5 DEF Skips, SameAt
  <2>8. QED
    BY <2>6, <2>7
<1>6. ASSUME NEW c \in Edges(p), Src(p, c) # n, c = Executor \/ c[1] # n
      PROVE  Gets1(p, z2, c) /\ Hears(p, z2, c)
  <2>1. /\ KnownEdge(p, d, z, c) /\ Src(p, c) \in DOMAIN p
        /\ c # Executor => c[1] \in DOMAIN p /\ c[2] \in 1 .. 2
    BY <1>3 DEF KnownEdge
  <2>2. SameAt(p, z, z2, Src(p, c))
    BY <1>1, <1>6, <2>1
  <2>3. c # Executor => SameAt(p, z, z2, c[1]) /\ Ac(z2, c[1]) = Ac(z, c[1])
    BY <1>1, <1>6, <2>1
  <2>4. /\ Sees(p, z2, c) <=> Sees(p, z, c)
        /\ Over(p, z2, c) <=> Over(p, z, c)
    BY <1>4, <2>3, SeesFrame, OverFrame DEF SameAt
  <2>5. c # Executor => Got(z2, c[1], c[2]) = Got(z, c[1], c[2])
    BY <2>1, <2>3 DEF SameAt
  <2>6. Gets1(p, z, c) /\ Hears(p, z, c)
    BY <2>1 DEF KnownEdge, EdgeCtl
  <2>7. Gets1(p, z2, c)
    BY <1>4, <2>2, <2>4, <2>5, <2>6 DEF Gets1, Sees, SameAt
  <2>8. Hears(p, z2, c)
    BY <1>4, <2>2, <2>4, <2>6 DEF Hears, SameAt
  <2>9. QED
    BY <2>7, <2>8
<1>7. QED
  BY <1>5, <1>6


\* So it is enough to look at n, its consumers, its inputs and the nodes it drives.
LEMMA OwnKeeps ==
  ASSUME NEW p, NEW d, NEW z, NEW z2, NEW n, Ctl(p, d, z), Good(p, z2), OwnStep(p, z, z2, n),
         Pace(d, z2, n), Linear(p, z2, n), Filter(p, z2, n), Appends(p, z2, n),
         Ended(p, d, z2, n), Skips(p, d, z2, n),
         \A x \in DOMAIN p : x # n /\ d[x] # Executor /\ d[x][1] = n /\ Pc(z2, n) # Pc(z, n) =>
                               Ended(p, d, z2, x) /\ Skips(p, d, z2, x),
         \A c \in Edges(p) : Src(p, c) = n => EdgeCtl(p, d, z2, c),
         \A c \in Edges(p) : Src(p, c) # n /\ c # Executor /\ c[1] = n =>
                               Gets1(p, z2, c) /\ Hears(p, z2, c)
  PROVE  Ctl(p, d, z2)
<1>1. IsDriver(p, d)
  BY DEF Ctl
<1>2. ASSUME NEW x \in DOMAIN p PROVE NodeCtl(p, d, z2, x)
  <2>1. Busy(p, d, z2, x) /\ Asked(p, z2, x)
    BY OwnRest
  <2>2. CASE x = n
    BY <2>1, <2>2 DEF NodeCtl
  <2>3. CASE x # n
    <3>1. Pace(d, z2, x) /\ Linear(p, z2, x) /\ Filter(p, z2, x) /\ Appends(p, z2, x)
      BY <2>3, OwnRest
    <3>2. Ended(p, d, z2, x) /\ Skips(p, d, z2, x)
      BY <2>3, OwnOther
    <3>3. QED
      BY <2>1, <3>1, <3>2 DEF NodeCtl
  <2>4. QED
    BY <2>2, <2>3
<1>3. ASSUME NEW c \in Edges(p) PROVE EdgeCtl(p, d, z2, c)
  <2>1. CASE Src(p, c) = n
    BY <2>1
  <2>2. CASE Src(p, c) # n
    <3>1. Edge(p, d, z2, c)
      BY <2>2, OwnRest
    <3>2. Gets1(p, z2, c) /\ Hears(p, z2, c)
      BY <2>2, OwnOther
    <3>3. QED
      BY <3>1, <3>2 DEF EdgeCtl
  <2>3. QED
    BY <2>1, <2>2
<1>4. R(z2, Executor) = A(z2, Executor) + Ca(z2, Executor)
  BY OwnRest
<1>5. QED
  BY <1>1, <1>2, <1>3, <1>4, CtlBy

\* What is known of n, the node on top.
OwnKnown(p, d, z, z2, n) ==
  /\ n \in DOMAIN p /\ n \in ON(z) /\ n \in ON(z2) /\ n \in Nat
  /\ Known(p, d, z, n) /\ NodeViewOK(p, z, n) /\ NodeViewOK(p, z2, n) /\ NodeCtl(p, d, z, n)
  /\ R(z, d[n]) \in Nat /\ R(z2, d[n]) = R(z, d[n])
  /\ Skipping(p, z2, d[n]) <=> Skipping(p, z, d[n])
  /\ Skipped(p, z2, d[n]) <=> Skipped(p, z, d[n])
  /\ \A c \in Edges(p) : A(z2, c) = A(z, c) /\ Ca(z2, c) = Ca(z, c) /\ A(z, c) \in Nat
  /\ \A i \in 1 .. Arity(p, n) : A(z2, <<n, i>>) = A(z, <<n, i>>)
  /\ z2.go <=> z.go

LEMMA OwnKnows ==
  ASSUME NEW p, NEW d, NEW z, NEW z2, NEW n, Ctl(p, d, z), Good(p, z2), OwnStep(p, z, z2, n)
  PROVE  OwnKnown(p, d, z, z2, n)
<1>0. n \in DOMAIN p /\ n \in ON(z) /\ n \in Nat
  BY OwnRest
<1>2. Known(p, d, z, n) /\ IsPlan(p)
  BY <1>0, AllKnown
<1>1. n \in DOMAIN p /\ n \in ON(z) /\ n \in Nat /\ R(z2, d[n]) = R(z, d[n])
  BY <1>0, <1>2 DEF Known, OwnStep, SameHistory
<1>3. NodeViewOK(p, z2, n)
  BY <1>1, Views DEF ViewOK
<1>4. /\ ON(z2) = ON(z) /\ (z2.go <=> z.go)
      /\ \A c \in Edges(p) : Ca(z2, c) = Ca(z, c) /\ A(z2, c) = A(z, c)
  BY DEF OwnStep, SameCalls, SameHistory
<1>5. \A c \in Edges(p) : A(z, c) \in Nat
  BY CtlParts DEF EdgeViewOK
<1>6. \A i \in 1 .. Arity(p, n) : <<n, i>> \in Edges(p)
  BY <1>1, <1>2, IsEdge
<1>7. d[n] \in Edges(p) /\ IsDriverOf(p, n, d[n])
  BY <1>2 DEF Known
<1>8. d[n] # Executor => d[n][1] \in DOMAIN p /\ d[n][1] # n
  BY <1>1, <1>7 DEF IsDriverOf
<1>9. d[n] # Executor => SameAt(p, z, z2, d[n][1])
  BY <1>8 DEF OwnStep
<1>10. /\ Skipping(p, z2, d[n]) <=> Skipping(p, z, d[n])
       /\ Skipped(p, z2, d[n]) <=> Skipped(p, z, d[n])
  BY <1>4, <1>7, <1>9, SkipFrame DEF SameAt
<1>11. QED
  BY <1>1, <1>2, <1>3, <1>4, <1>5, <1>6, <1>10 DEF OwnKnown, Known

\* A filter or an append that does not move, except when it has emitted its last
\* block.
Stays(z, z2, n) ==
  /\ Pc(z2, n) = Pc(z, n) \/ (Pc(z, n) = "tail" /\ Pc(z2, n) = "end")
  /\ Arg(z2, n) = Arg(z, n)

LEMMA OwnStays ==
  ASSUME NEW p, NEW d, NEW z, NEW z2, NEW n, Ctl(p, d, z), Good(p, z2), OwnStep(p, z, z2, n),
         p[n].op \in {"filter", "append"} => Stays(z, z2, n)
  PROVE  /\ Filter(p, z2, n) /\ Appends(p, z2, n)
         /\ \A c \in Edges(p) : Src(p, c) # n /\ c # Executor /\ c[1] = n /\ p[n].op # "linear" =>
                               Gets1(p, z2, c) /\ Hears(p, z2, c)
<1>1. OwnKnown(p, d, z, z2, n) /\ IsPlan(p)
  BY OwnKnows, AllKnown
<1>2. NodeCtl(p, d, z, n) /\ n \in DOMAIN p
  BY <1>1 DEF OwnKnown
<1>3. /\ Up(z2, n) = Up(z, n) /\ Got(z2, n, 1) = Got(z, n, 1) /\ Got(z2, n, 2) = Got(z, n, 2)
      /\ SameHistory(p, z, z2) /\ SameCalls(p, z, z2)
  BY DEF OwnStep
<1>4. p[n].op \in {"filter", "append"} =>
        \A i \in 1 .. 2 : /\ A(z2, <<n, i>>) = A(z, <<n, i>>) /\ R(z2, <<n, i>>) = R(z, <<n, i>>)
                          /\ Ca(z2, <<n, i>>) = Ca(z, <<n, i>>)
  <2> HAVE p[n].op \in {"filter", "append"}
  <2>1. \A i \in 1 .. 2 : <<n, i>> \in Edges(p)
    BY <1>1, <1>2, PlanArity, IsEdge
  <2>2. QED
    BY <1>3, <2>1 DEF SameHistory, SameCalls
<1>5. Filter(p, z2, n)
  <2> SUFFICES ASSUME p[n].op = "filter" PROVE Filter(p, z2, n)
    BY DEF Filter
  <2>1. /\ A(z2, <<n, 1>>) = A(z, <<n, 1>>) /\ A(z2, <<n, 2>>) = A(z, <<n, 2>>)
        /\ R(z2, <<n, 2>>) = R(z, <<n, 2>>)
        /\ Ca(z2, <<n, 1>>) = Ca(z, <<n, 1>>) /\ Ca(z2, <<n, 2>>) = Ca(z, <<n, 2>>)
    BY <1>4
  <2>2. Filter(p, z, n)
    BY <1>2 DEF NodeCtl
  <2>3. QED
    BY <1>3, <2>1, <2>2 DEF Filter, FilterAt, Stays
<1>6. Appends(p, z2, n)
  <2> SUFFICES ASSUME p[n].op = "append" PROVE Appends(p, z2, n)
    BY DEF Appends
  <2>1. \A i \in 1 .. 2 : /\ A(z2, <<n, i>>) = A(z, <<n, i>>) /\ R(z2, <<n, i>>) = R(z, <<n, i>>)
                          /\ Ca(z2, <<n, i>>) = Ca(z, <<n, i>>)
    BY <1>4
  <2>2. Appends(p, z, n)
    BY <1>2 DEF NodeCtl
  <2>3. QED
    BY <1>3, <2>1, <2>2 DEF Appends, Stays
<1>7. ASSUME NEW c \in Edges(p), Src(p, c) # n, c # Executor, c[1] = n, p[n].op # "linear"
      PROVE  Gets1(p, z2, c) /\ Hears(p, z2, c)
  <2>1. /\ Gets1(p, z, c) /\ Hears(p, z, c) /\ Src(p, c) \in DOMAIN p /\ c[2] \in 1 .. 2
        /\ p[n].op \in {"filter", "append"}
    BY <1>7, AllKnown DEF KnownEdge, EdgeCtl
  <2>2. SameAt(p, z, z2, Src(p, c))
    BY <1>7, <2>1 DEF OwnStep
  <2>3. Sees(p, z2, c) <=> Sees(p, z, c)
    BY <1>3, <1>7, <2>1 DEF Sees, Stays
  <2>4. Over(p, z2, c) <=> Over(p, z, c)
    BY <1>7, <2>1, <2>3 DEF Over, Stays
  <2>5. Got(z2, c[1], c[2]) = Got(z, c[1], c[2])
    BY <1>3, <1>7, <2>1
  <2>6. A(z2, c) = A(z, c) /\ (z2.go <=> z.go)
    BY <1>1 DEF OwnKnown
  <2>7. Gets1(p, z2, c)
    BY <2>1, <2>2, <2>3, <2>5, <2>6 DEF Gets1, SameAt
  <2>8. Hears(p, z2, c)
    BY <2>1, <2>2, <2>4, <2>6 DEF Hears, SameAt
  <2>9. QED
    BY <2>7, <2>8
<1>8. QED
  BY <1>5, <1>6, <1>7

\* What the consumers of n still see.
LEMMA OwnSeen ==
  ASSUME NEW p, NEW d, NEW z, NEW z2, NEW n, Ctl(p, d, z), Good(p, z2), OwnStep(p, z, z2, n),
         NEW c \in Edges(p), Src(p, c) = n
  PROVE  /\ Sees(p, z2, c) <=> Sees(p, z, c)
         /\ Over(p, z2, c) <=> Over(p, z, c)
         /\ Ac(z, n) = 1 => ~ Sees(p, z, c)
         /\ c # Executor => /\ c[1] \in DOMAIN p /\ c[1] # n /\ c[2] \in 1 .. 2
                            /\ Got(z2, c[1], c[2]) = Got(z, c[1], c[2])
<1>1. c # Executor => c[1] \in DOMAIN p /\ c[1] # n /\ c[2] \in 1 .. 2
  BY AllKnown DEF KnownEdge
<1>2. c # Executor => SameAt(p, z, z2, c[1]) /\ Ac(z2, c[1]) = Ac(z, c[1])
  BY <1>1 DEF OwnStep
<1>3. z2.pc = z.pc
  BY DEF OwnStep, SameHistory
<1>4. /\ Sees(p, z2, c) <=> Sees(p, z, c)
      /\ Over(p, z2, c) <=> Over(p, z, c)
  BY <1>2, <1>3, SeesFrame, OverFrame DEF SameAt
<1>5. Ac(z, n) = 1 => ~ Sees(p, z, c)
  BY SeenIsQuiet
<1>6. c # Executor => Got(z2, c[1], c[2]) = Got(z, c[1], c[2])
  BY <1>1, <1>2 DEF SameAt
<1>7. QED
  BY <1>1, <1>4, <1>5, <1>6

LEMMA EndControl ==
  ASSUME NEW p, NEW d, NEW z, NEW z2, NEW n, Ctl(p, d, z), Good(p, z2), CEnd(p, z, z2, n)
  PROVE  Ctl(p, d, z2)
<1>1. /\ OwnStep(p, z, z2, n) /\ Ac(z, n) = 1 /\ Ac(z2, n) = 0
      /\ En(z2, n) = 1 /\ K(z2, n) = K(z, n) /\ Pc(z2, n) = Pc(z, n) /\ Arg(z2, n) = Arg(z, n)
      /\ Fk(p, z2, n) = Fk(p, z, n) /\ El(z2, n) = El(z, n) /\ Sk(z2, n) = Sk(z, n)
      /\ p[n].op = "linear" /\ z.go => Pc(z, n) = "apply"
  BY DEF CEnd, OwnStep
<1>2. OwnKnown(p, d, z, z2, n) /\ IsPlan(p)
  BY <1>1, OwnKnows, AllKnown
<1>3. /\ n \in DOMAIN p /\ n \in ON(z) /\ R(z, d[n]) \in Nat /\ R(z2, d[n]) = R(z, d[n])
      /\ NodeViewOK(p, z, n) /\ NodeCtl(p, d, z, n) /\ (z2.go <=> z.go)
      /\ \A c \in Edges(p) : A(z2, c) = A(z, c) /\ Ca(z2, c) = Ca(z, c) /\ A(z, c) \in Nat
  BY <1>2 DEF OwnKnown
<1>4. K(z, n) + 1 = R(z, d[n]) /\ K(z, n) \in Nat /\ En(z, n) = 0
  BY <1>1, <1>3, ActivePace DEF NodeViewOK
<1>5. Pace(d, z2, n)
  BY <1>1, <1>3, <1>4 DEF Pace
<1>6. Linear(p, z2, n)
  <2> SUFFICES ASSUME p[n].op = "linear", z.go
               PROVE  \A i \in 1 .. Arity(p, n) : A(z2, <<n, i>>) = K(z2, n) + 1
    BY <1>1, <1>3 DEF Linear
  <2>1. \A i \in 1 .. Arity(p, n) : A(z2, <<n, i>>) = A(z, <<n, i>>)
    BY <1>2 DEF OwnKnown
  <2>2. Linear(p, z, n)
    BY <1>3 DEF NodeCtl
  <2>3. \A i \in 1 .. Arity(p, n) : A(z, <<n, i>>) = K(z, n) + 1
    BY <1>1, <2>2 DEF Linear
  <2>4. QED
    BY <1>1, <2>1, <2>3
<1>7. /\ Filter(p, z2, n) /\ Appends(p, z2, n)
      /\ Stays(z, z2, n)
  BY <1>1, OwnStays DEF Stays
<1>8. Skips(p, d, z, n) /\ Linear(p, z, n)
  BY <1>3 DEF NodeCtl
<1>9. Ended(p, d, z2, n)
  <2> SUFFICES ASSUME p[n].op = "linear", z2.go
               PROVE  /\ R(z2, d[n]) = K(z2, n) + 1
                      /\ ~ Skipping(p, z2, d[n])
                      /\ \E c \in Edges(p) : Src(p, c) = n /\ (Ca(z2, c) = 1 \/ A(z2, c) = R(z2, d[n]))
    BY DEF Ended
  <2>1. Pc(z, n) = "apply"
    BY <1>1, <1>3
  <2>2. ~ (Sk(z, n) = 1)
    BY <1>1, <1>8, <2>1 DEF Linear
  <2>3. ~ Skipping(p, z, d[n])
    BY <1>3, <1>8, <2>2 DEF Skips
  <2>4. ~ Skipping(p, z2, d[n])
    BY <1>2, <2>3 DEF OwnKnown
  <2>5. \E c \in Edges(p) : Src(p, c) = n /\ Ca(z, c) = 1
    BY <1>3 DEF NodeViewOK
  <2>6. QED
    BY <1>1, <1>3, <1>4, <2>4, <2>5
<1>10. Skips(p, d, z2, n)
  <2>1. Sk(z2, n) = 1 <=> Skipping(p, z2, d[n])
    BY <1>1, <1>2, <1>3, <1>8 DEF Skips, OwnKnown
  <2>2. K(z2, n) # R(z2, d[n])
    BY <1>1, <1>3, <1>4
  <2>3. QED
    BY <1>1, <1>8, <2>1, <2>2 DEF Skips
<1>11. ASSUME NEW c \in Edges(p), Src(p, c) = n PROVE EdgeCtl(p, d, z2, c)
  <2>1. Edge(p, d, z, c)
    BY AllKnown DEF KnownEdge, EdgeCtl
  <2>2. Edge(p, d, z2, c)
    BY <1>1, <1>3, <1>11, <2>1 DEF Edge
  <2>3. ~ Sees(p, z2, c)
    BY <1>1, <1>11, OwnSeen
  <2>4. A(z2, c) # K(z2, n) + 1
    BY <1>1, <1>3, <1>4, <1>11, <2>1 DEF Edge
  <2>5. QED
    BY <1>11, <2>2, <2>3, <2>4 DEF EdgeCtl, Gets1, Hears
<1>12. ASSUME NEW c \in Edges(p), Src(p, c) # n, c # Executor, c[1] = n
       PROVE  Gets1(p, z2, c) /\ Hears(p, z2, c)
  <2>1. CASE p[n].op # "linear"
    BY <1>1, <1>7, <1>12, <2>1, OwnStays
  <2>2. CASE p[n].op = "linear"
    <3>1. ~ Sees(p, z2, c) /\ Over(p, z2, c)
      BY <1>1, <1>12, <2>2 DEF Sees, Over
    <3>2. QED
      BY <3>1 DEF Gets1, Hears
  <2>3. QED
    BY <2>1, <2>2
<1>13. QED
  BY <1>1, <1>5, <1>6, <1>7, <1>9, <1>10, <1>11, <1>12, OwnKeeps


\* The nodes that n drives.
LEMMA OwnDriven ==
  ASSUME NEW p, NEW d, NEW z, NEW z2, NEW n, Ctl(p, d, z), Good(p, z2), OwnStep(p, z, z2, n),
         NEW x \in DOMAIN p, x # n,
         Skipping(p, z2, d[x]) <=> Skipping(p, z, d[x]),
         Skipped(p, z, d[x]) => Skipping(p, z2, d[x]) \/ Skipped(p, z2, d[x])
  PROVE  Ended(p, d, z2, x) /\ Skips(p, d, z2, x)
<1>1. Ended(p, d, z, x) /\ Skips(p, d, z, x) /\ d[x] \in Edges(p)
  BY AllKnown DEF Known, NodeCtl
<1>2. /\ ON(z2) = ON(z) /\ (z2.go <=> z.go)
      /\ \A c \in Edges(p) : Ca(z2, c) = Ca(z, c) /\ A(z2, c) = A(z, c) /\ R(z2, c) = R(z, c)
  BY DEF OwnStep, SameCalls, SameHistory
<1>3. SameAt(p, z, z2, x) /\ Ac(z2, x) = Ac(z, x) /\ R(z2, d[x]) = R(z, d[x])
  BY <1>1, <1>2 DEF OwnStep
<1>4. Ended(p, d, z2, x)
  BY <1>1, <1>2, <1>3 DEF Ended, SameAt
<1>5. Skips(p, d, z2, x)
  BY <1>1, <1>2, <1>3 DEF Skips, SameAt
<1>6. QED
  BY <1>4, <1>5

LEMMA SinkControl ==
  ASSUME NEW p, NEW d, NEW z, NEW z2, NEW n, Ctl(p, d, z), Good(p, z2), CSink(p, z, z2, n)
  PROVE  Ctl(p, d, z2)
<1>1. /\ OwnStep(p, z, z2, n) /\ Ac(z, n) = 1 /\ Ac(z2, n) = 0
      /\ En(z2, n) = En(z, n) /\ K(z2, n) = K(z, n) + 1 /\ Arg(z2, n) = Arg(z, n)
      /\ Sk(z2, n) = Sk(z, n) /\ Up(z2, n) = Up(z, n)
      /\ Stays(z, z2, n)
  BY DEF CSink, OwnStep, Stays
<1>2. OwnKnown(p, d, z, z2, n) /\ IsPlan(p)
  BY <1>1, OwnKnows, AllKnown
<1>3. /\ n \in DOMAIN p /\ n \in ON(z) /\ n \in ON(z2) /\ R(z, d[n]) \in Nat /\ R(z2, d[n]) = R(z, d[n])
      /\ NodeViewOK(p, z, n) /\ NodeCtl(p, d, z, n) /\ (z2.go <=> z.go)
      /\ Skips(p, d, z, n) /\ Linear(p, z, n)
      /\ \A c \in Edges(p) : A(z2, c) = A(z, c) /\ Ca(z2, c) = Ca(z, c) /\ A(z, c) \in Nat
  BY <1>2 DEF OwnKnown, NodeCtl
<1>4. K(z, n) + 1 = R(z, d[n]) /\ K(z, n) \in Nat /\ En(z, n) = 0 /\ En(z2, n) = 0 /\ Sk(z, n) \in {0, 1}
  BY <1>1, <1>3, ActivePace DEF NodeViewOK
<1>5. Pace(d, z2, n)
  BY <1>1, <1>3, <1>4 DEF Pace
<1>6. Linear(p, z2, n)
  <2> SUFFICES ASSUME p[n].op = "linear"
               PROVE  \A i \in 1 .. Arity(p, n) : A(z2, <<n, i>>) = K(z2, n)
    BY <1>1, <1>4 DEF Linear
  <2>1. \A i \in 1 .. Arity(p, n) : A(z2, <<n, i>>) = A(z, <<n, i>>)
    BY <1>2 DEF OwnKnown
  <2>2. Pc(z, n) \in {"apply", "fake"}
    BY DEF CSink
  <2>3. \A i \in 1 .. Arity(p, n) : A(z, <<n, i>>) = K(z, n) + 1
    BY <1>1, <1>3, <2>2 DEF Linear
  <2>4. QED
    BY <1>1, <2>1, <2>3
<1>7. Filter(p, z2, n) /\ Appends(p, z2, n)
  BY <1>1, OwnStays
<1>9. Ended(p, d, z2, n)
  BY <1>4 DEF Ended
<1>10. Skips(p, d, z2, n)
  <2>1. Sk(z2, n) = 1 <=> Skipping(p, z2, d[n])
    BY <1>1, <1>2, <1>3 DEF Skips, OwnKnown
  <2>2. p[n].op = "source" => El(z2, n) = 1
    BY DEF CSink
  <2>3. Fk(p, z2, n) = 1 => Sk(z2, n) = 1
    <3>0. p[n].op \in {"source", "linear", "filter", "append"}
      BY <1>2, <1>3, PlanShape
    <3>1. CASE p[n].op = "source"
      BY <1>1, <1>3, <3>1 DEF CSink, Skips
    <3>2. CASE p[n].op = "linear"
      <4>1. Fk(p, z2, n) = 1 => Pc(z, n) = "fake"
        BY <3>2 DEF CSink
      <4>2. QED
        BY <1>1, <1>3, <3>2, <4>1 DEF Linear
    <3>3. CASE p[n].op \in {"filter", "append"}
      BY <3>3 DEF CSink
    <3>4. QED
      BY <3>0, <3>1, <3>2, <3>3
  <2>4. QED
    BY <1>1, <2>1, <2>2, <2>3 DEF Skips
<1>11. ASSUME NEW c \in Edges(p), Src(p, c) = n PROVE EdgeCtl(p, d, z2, c)
  <2>1. Edge(p, d, z, c)
    BY AllKnown DEF KnownEdge, EdgeCtl
  <2>2. Edge(p, d, z2, c)
    BY <1>1, <1>3, <1>4, <1>11, <2>1 DEF Edge
  <2>3. ~ Sees(p, z2, c)
    BY <1>1, <1>11, OwnSeen
  <2>4. QED
    BY <1>4, <1>11, <2>2, <2>3 DEF EdgeCtl, Gets1, Hears
<1>12. ASSUME NEW c \in Edges(p), Src(p, c) # n, c # Executor, c[1] = n
       PROVE  Gets1(p, z2, c) /\ Hears(p, z2, c)
  <2>1. CASE p[n].op # "linear"
    BY <1>1, <1>7, <1>12, <2>1, OwnStays
  <2>2. CASE p[n].op = "linear"
    <3>1. ~ Sees(p, z2, c)
      BY <1>1, <1>12, <2>2 DEF Sees
    <3>2. /\ Gets1(p, z, c) /\ Hears(p, z, c) /\ Src(p, c) \in DOMAIN p /\ c[2] \in 1 .. Arity(p, n)
          /\ NodeViewOK(p, z, Src(p, c))
      BY <1>12, AllKnown DEF KnownEdge, EdgeCtl, Known
    <3>3. SameAt(p, z, z2, Src(p, c)) /\ K(z, Src(p, c)) \in Nat
      BY <1>1, <1>12, <3>2 DEF OwnStep, NodeViewOK
    <3>4. CASE Pc(z, n) = "apply" /\ \A i \in 1 .. Arity(p, n) : Got(z, n, i) = 1
      <4>1. Sees(p, z, c)
        BY <1>1, <1>12, <2>2, <3>4 DEF Sees
      <4>2. A(z, c) = K(z, Src(p, c))
        BY <1>12, <3>2, <3>4, <4>1 DEF Gets1
      <4>3. A(z2, c) # K(z2, Src(p, c)) + 1
        BY <1>3, <3>3, <4>2 DEF SameAt
      <4>4. QED
        BY <3>1, <4>3 DEF Gets1, Hears
    <3>5. CASE Pc(z, n) = "fake"
      <4>1. ~ Over(p, z, c)
        BY <1>4, <1>12, <2>2, <3>5 DEF Over, Sees
      <4>2. Hears(p, z2, c)
        BY <1>3, <3>2, <3>3, <4>1 DEF Hears, SameAt
      <4>3. QED
        BY <3>1, <4>2 DEF Gets1
    <3>6. QED
      BY <2>2, <3>4, <3>5 DEF CSink
  <2>3. QED
    BY <2>1, <2>2
<1>13. ASSUME NEW x \in DOMAIN p, x # n, d[x] # Executor, d[x][1] = n, Pc(z2, n) # Pc(z, n)
       PROVE  Ended(p, d, z2, x) /\ Skips(p, d, z2, x)
  <2>1. Pc(z, n) = "tail" /\ Pc(z2, n) = "end"
    BY <1>1, <1>13 DEF Stays
  <2>2. ~ Skipping(p, z, d[x]) /\ ~ Skipping(p, z2, d[x]) /\ ~ Skipped(p, z, d[x])
    BY <1>13, <2>1 DEF Skipping, Skipped
  <2>3. QED
    BY <1>1, <1>13, <2>2, OwnDriven
<1>14. QED
  BY <1>1, <1>5, <1>6, <1>7, <1>9, <1>10, <1>11, <1>12, <1>13, OwnKeeps

LEMMA ResumeControl ==
  ASSUME NEW p, NEW d, NEW z, NEW z2, NEW n, NEW c, Ctl(p, d, z), Good(p, z2), CResume(p, z, z2, n, c)
  PROVE  Ctl(p, d, z2)
<1>1. /\ OwnStep(p, z, z2, n) /\ Ac(z, n) = 0 /\ Ac(z2, n) = 1
      /\ En(z2, n) = 0 /\ En(z, n) = 0 /\ K(z2, n) = K(z, n) /\ El(z2, n) = El(z, n)
      /\ Sk(z2, n) = Sk(z, n) /\ Up(z2, n) = Up(z, n)
      /\ p[n].op \in {"filter", "append"} => Stays(z, z2, n)
  BY DEF CResume, OwnStep, Stays
<1>2. OwnKnown(p, d, z, z2, n) /\ IsPlan(p)
  BY <1>1, OwnKnows, AllKnown
<1>3. /\ n \in DOMAIN p /\ n \in ON(z) /\ n \in ON(z2) /\ R(z, d[n]) \in Nat /\ R(z2, d[n]) = R(z, d[n])
      /\ NodeViewOK(p, z, n) /\ NodeCtl(p, d, z, n) /\ (z2.go <=> z.go)
      /\ Skips(p, d, z, n) /\ Linear(p, z, n)
      /\ \A e \in Edges(p) : A(z2, e) = A(z, e) /\ Ca(z2, e) = Ca(z, e) /\ A(z, e) \in Nat
  BY <1>2 DEF OwnKnown, NodeCtl
<1>4. K(z, n) + 1 = R(z, d[n]) /\ K(z, n) \in Nat /\ Sk(z, n) \in {0, 1}
  <2>1. c \in Edges(p) /\ Src(p, c) = n /\ Ca(z, c) = 1 /\ A(z, c) >= K(z, n)
    BY DEF CResume
  <2>2. Edge(p, d, z, c) /\ A(z, c) \in Nat
    BY <1>3, <2>1, AllKnown DEF KnownEdge, EdgeCtl
  <2>3. K(z, n) \in Nat /\ Sk(z, n) \in {0, 1}
    BY <1>3 DEF NodeViewOK
  <2>4. QED
    BY <1>1, <1>3, <2>1, <2>2, <2>3 DEF Edge
<1>5. Pace(d, z2, n)
  BY <1>1, <1>3, <1>4 DEF Pace
<1>6. Linear(p, z2, n)
  <2> SUFFICES ASSUME p[n].op = "linear" PROVE Linear(p, z2, n)
    BY DEF Linear
  <2>1. \A i \in 1 .. Arity(p, n) : A(z2, <<n, i>>) = K(z2, n)
    <3>1. \A i \in 1 .. Arity(p, n) : A(z2, <<n, i>>) = A(z, <<n, i>>)
      BY <1>2 DEF OwnKnown
    <3>2. \A i \in 1 .. Arity(p, n) : A(z, <<n, i>>) = K(z, n)
      BY <1>1, <1>3 DEF Linear
    <3>3. QED
      BY <1>1, <3>1, <3>2
  <2>2. (Pc(z2, n) = IF Sk(z, n) = 1 THEN "drain" ELSE "get") /\ Arg(z2, n) = 1
    BY DEF CResume
  <2>3. Sk(z2, n) = 1 <=> Pc(z2, n) \in {"drain", "fake"}
    BY <1>1, <2>2
  <2>4. \A i \in 1 .. Arity(p, n) : ~ (i < Arg(z2, n)) /\ Pc(z2, n) \notin {"apply", "fake"}
    <3>1. Arity(p, n) \in Nat
      BY <1>2, <1>3, PlanShape
    <3>2. QED
      BY <2>2, <3>1
  <2>5. QED
    BY <1>1, <2>1, <2>3, <2>4 DEF Linear
<1>7. Filter(p, z2, n) /\ Appends(p, z2, n)
  BY <1>1, OwnStays
<1>9. Ended(p, d, z2, n)
  BY <1>1 DEF Ended
<1>10. Skips(p, d, z2, n)
  <2>1. Sk(z2, n) = 1 <=> Skipping(p, z2, d[n])
    BY <1>1, <1>2, <1>3 DEF Skips, OwnKnown
  <2>2. p[n].op = "source" => El(z2, n) = 1 /\ Fk(p, z2, n) = Sk(z2, n)
    BY <1>1, <1>3 DEF CResume, Skips
  <2>3. K(z2, n) # R(z2, d[n])
    BY <1>1, <1>3, <1>4
  <2>4. QED
    BY <1>1, <2>1, <2>2, <2>3 DEF Skips
<1>11. ASSUME NEW e \in Edges(p), Src(p, e) = n PROVE EdgeCtl(p, d, z2, e)
  <2>1. Edge(p, d, z, e) /\ Gets1(p, z, e)
    BY AllKnown DEF KnownEdge, EdgeCtl
  <2>2. Edge(p, d, z2, e)
    BY <1>1, <1>3, <1>11, <2>1 DEF Edge
  <2>3. /\ Sees(p, z2, e) <=> Sees(p, z, e)
        /\ e # Executor => Got(z2, e[1], e[2]) = Got(z, e[1], e[2])
    BY <1>1, <1>11, OwnSeen
  <2>4. Gets1(p, z2, e)
    BY <1>1, <1>3, <1>11, <2>1, <2>3 DEF Gets1, Sees
  <2>5. QED
    BY <1>1, <1>11, <2>2, <2>4 DEF EdgeCtl, Hears
<1>12. ASSUME NEW e \in Edges(p), Src(p, e) # n, e # Executor, e[1] = n
       PROVE  Gets1(p, z2, e) /\ Hears(p, z2, e)
  <2>1. CASE p[n].op # "linear"
    BY <1>1, <1>12, <2>1, OwnStays
  <2>2. CASE p[n].op = "linear"
    <3>1. /\ Hears(p, z, e) /\ Src(p, e) \in DOMAIN p /\ e[2] \in 1 .. 2
      BY <1>12, AllKnown DEF KnownEdge, EdgeCtl
    <3>2. Pc(z2, n) \in {"drain", "get"} /\ Arg(z2, n) = 1
      BY <2>2 DEF CResume
    <3>3. ~ Sees(p, z2, e)
      BY <1>12, <2>2, <3>1, <3>2 DEF Sees
    <3>4. SameAt(p, z, z2, Src(p, e))
      BY <1>1, <1>12, <3>1 DEF OwnStep
    <3>5. ~ Over(p, z, e)
      BY <1>1, <1>12, <2>2 DEF Over, Sees
    <3>6. Hears(p, z2, e)
      BY <1>3, <3>1, <3>4, <3>5 DEF Hears, SameAt
    <3>7. QED
      BY <3>3, <3>6 DEF Gets1
  <2>3. QED
    BY <2>1, <2>2
<1>13. ASSUME NEW x \in DOMAIN p, x # n, d[x] # Executor, d[x][1] = n, Pc(z2, n) # Pc(z, n)
       PROVE  Ended(p, d, z2, x) /\ Skips(p, d, z2, x)
  <2>1. IsDriverOf(p, x, d[x])
    BY AllKnown DEF Known
  <2>2. p[n].op \in {"filter", "append"}
    BY <1>13, <2>1 DEF IsDriverOf
  <2>3. Pc(z2, n) = Pc(z, n)
    BY <2>2 DEF CResume
  <2>4. QED
    BY <1>13, <2>3
<1>14. QED
  BY <1>1, <1>5, <1>6, <1>7, <1>9, <1>10, <1>11, <1>12, <1>13, OwnKeeps


\* A filter that begins to skip has no linear input that has ended.
LEMMA FilterGoesOn ==
  ASSUME NEW p, NEW d, NEW z, NEW n \in DOMAIN p, Ctl(p, d, z), z.go, p[n].op = "filter",
         Ac(z, n) = 1, Pc(z, n) = "test", Got(z, n, 2) = 1,
         \A i \in 1 .. 2 : Ca(z, <<n, i>>) = 0
  PROVE  \A x \in DOMAIN p : d[x] = <<n, 2>> /\ p[x].op = "linear" => En(z, x) = 0
<1>1. Quiet(p, d, z, <<n, 2>>)
  BY QuietInside
<1>2. /\ Known(p, d, z, n) /\ \A c \in Edges(p) : KnownEdge(p, d, z, c)
      /\ IsPlan(p) /\ IsDriver(p, d)
  BY AllKnown
<1>3. n # 0 /\ Arity(p, n) = 2
  BY <1>2, PlanShape, PlanArity
<1>4. <<n, 1>> \in Edges(p) /\ <<n, 2>> \in Edges(p)
  BY <1>2, <1>3, IsEdge
<1>5. FilterAt("test", A(z, <<n, 1>>), A(z, <<n, 2>>), R(z, <<n, 2>>), Ca(z, <<n, 1>>), Ca(z, <<n, 2>>))
  <2>1. Up(z, n) = 1 /\ Filter(p, z, n)
    BY <1>2 DEF Known, NodeViewOK, NodeCtl
  <2>2. QED
    BY <2>1 DEF Filter
<1>6. A(z, <<n, 2>>) = A(z, <<n, 1>>) + 1 /\ R(z, <<n, 2>>) = A(z, <<n, 2>>) /\ A(z, <<n, 1>>) \in Nat
  BY <1>2, <1>4, <1>5 DEF FilterAt, KnownEdge, EdgeViewOK
<1>7. ASSUME NEW c \in Edges(p), d[Src(p, c)] = <<n, 2>>, c = Executor \/ p[c[1]].op # "linear",
             A(z, c) = K(z, Src(p, c)) + 1, A(z, c) = R(z, <<n, 2>>)
      PROVE  FALSE
  <2>1. c # Executor
    BY <1>2, <1>3, <1>7, DriverOf DEF Executor
  <2>2. PICK m \in DOMAIN p, i \in 1 .. 2 : c = <<m, i>> /\ c[1] = m /\ c[2] = i
    BY <1>2, <2>1 DEF KnownEdge
  <2>3. p[m].op \in {"filter", "append"}
    BY <1>2, <1>7, <2>1, <2>2 DEF KnownEdge
  <2>4. m = n /\ c = <<n, i>>
    BY <1>2, <1>7, <2>1, <2>2, <2>3, DriverOf
  <2>5. CASE i = 1
    BY <1>6, <1>7, <2>4, <2>5
  <2>6. CASE i = 2
    <3>1. Sees(p, z, c)
      <4>1. Up(z, n) = 1
        BY <1>2 DEF Known, NodeViewOK
      <4>2. QED
        BY <2>1, <2>2, <2>4, <2>6, <4>1 DEF Sees
    <3>2. A(z, c) = K(z, Src(p, c))
      BY <1>2, <2>2, <2>4, <2>6, <3>1 DEF KnownEdge, EdgeCtl, Gets1
    <3>3. K(z, Src(p, c)) \in Nat
      BY <1>2 DEF KnownEdge, Known, NodeViewOK
    <3>4. QED
      BY <1>7, <3>2, <3>3
  <2>7. QED
    BY <2>5, <2>6
<1>8. QED
  BY <1>1, <1>7, NoneEnded

LEMMA LocalControl ==
  ASSUME NEW p, NEW d, NEW z, NEW z2, NEW n, Ctl(p, d, z), Good(p, z2), CLocal(p, z, z2, n)
  PROVE  Ctl(p, d, z2)
<1>1. /\ OwnStep(p, z, z2, n) /\ Ac(z, n) = 1 /\ Ac(z2, n) = 1
      /\ En(z2, n) = En(z, n) /\ K(z2, n) = K(z, n) /\ El(z2, n) = El(z, n) /\ Fk(p, z2, n) = Fk(p, z, n)
      /\ Sk(z2, n) = Sk(z, n) /\ Up(z2, n) = Up(z, n)
      /\ Got(z2, n, 1) = Got(z, n, 1) /\ Got(z2, n, 2) = Got(z, n, 2)
      /\ p[n].op \in {"filter", "append"}
  BY DEF CLocal, OwnStep
<1>2. OwnKnown(p, d, z, z2, n) /\ IsPlan(p)
  BY <1>1, OwnKnows, AllKnown
<1>3. /\ n \in DOMAIN p /\ n \in ON(z) /\ n \in ON(z2) /\ R(z, d[n]) \in Nat /\ R(z2, d[n]) = R(z, d[n])
      /\ NodeViewOK(p, z, n) /\ NodeCtl(p, d, z, n) /\ (z2.go <=> z.go)
      /\ Skips(p, d, z, n) /\ Filter(p, z, n) /\ Appends(p, z, n) /\ Pace(d, z, n)
      /\ \A c \in Edges(p) : A(z2, c) = A(z, c) /\ Ca(z2, c) = Ca(z, c) /\ A(z, c) \in Nat
  BY <1>2 DEF OwnKnown, NodeCtl
<1>4. \A i \in 1 .. 2 : <<n, i>> \in Edges(p)
  BY <1>1, <1>2, <1>3, PlanArity, IsEdge
<1>5. /\ \A i \in 1 .. 2 : Ca(z, <<n, i>>) = 0 /\ Ca(z2, <<n, i>>) = 0 /\ A(z, <<n, i>>) \in Nat
                           /\ A(z2, <<n, i>>) = A(z, <<n, i>>) /\ R(z2, <<n, i>>) = R(z, <<n, i>>)
      /\ Up(z, n) = 1
  <2>1. \A i \in 1 .. 2 : Ca(z, <<n, i>>) = 0
    BY <1>1, <1>4, OwnRest
  <2>2. \A i \in 1 .. 2 : R(z2, <<n, i>>) = R(z, <<n, i>>)
    BY <1>1, <1>4 DEF OwnStep, SameHistory
  <2>3. Up(z, n) = 1
    BY <1>1, <1>3 DEF NodeViewOK
  <2>4. QED
    BY <1>3, <1>4, <2>1, <2>2, <2>3
<1>6. Pace(d, z2, n)
  BY <1>1, <1>3 DEF Pace
<1>7. Linear(p, z2, n) /\ Ended(p, d, z2, n)
  BY <1>1 DEF Linear, Ended
<1>8. Filter(p, z2, n)
  <2> SUFFICES ASSUME p[n].op = "filter" PROVE Filter(p, z2, n)
    BY DEF Filter
  <2>1. PICK x \in Nat, y \in Nat, w \in {R(z, <<n, 2>>)} : x = A(z, <<n, 1>>) /\ y = A(z, <<n, 2>>) /\ w = R(z, <<n, 2>>)
    BY <1>5
  <2>2. /\ A(z2, <<n, 1>>) = x /\ A(z2, <<n, 2>>) = y /\ R(z2, <<n, 2>>) = w
        /\ Ca(z2, <<n, 1>>) = 0 /\ Ca(z2, <<n, 2>>) = 0 /\ Ca(z, <<n, 1>>) = 0 /\ Ca(z, <<n, 2>>) = 0
    BY <1>5, <2>1
  <2>3. FilterAt(Pc(z, n), x, y, w, 0, 0)
    BY <1>3, <1>5, <2>1, <2>2 DEF Filter
  <2>4. /\ FilterAt(Pc(z2, n), x, y, w, 0, 0)
        /\ Pc(z2, n) = "rows" => Got(z2, n, 1) = 1 /\ Got(z2, n, 2) = 1
        /\ Pc(z2, n) = "skip_left" => Got(z2, n, 2) = 1
    <3>1. Pc(z, n) = "rows" => Got(z, n, 1) = 1 /\ Got(z, n, 2) = 1
      BY <1>3, <1>5 DEF Filter
    <3>2. QED
      BY <1>1, <2>3, <3>1 DEF FilterAt, CLocal
  <2>5. QED
    BY <1>1, <1>5, <2>2, <2>4 DEF Filter
<1>9. Appends(p, z2, n)
  <2> SUFFICES ASSUME p[n].op = "append" PROVE Appends(p, z2, n)
    BY DEF Appends
  <2>1. /\ \A i \in 1 .. 2 : R(z2, <<n, i>>) = A(z2, <<n, i>>) + Ca(z2, <<n, i>>)
    BY <1>3, <1>5 DEF Appends
  <2>2. Arg(z2, n) = 1 => Arg(z, n) = 1 /\ Pc(z2, n) \in {"get", "copy"}
    BY <2>1 DEF CLocal
  <2>3. Arg(z2, n) = 1 => A(z2, <<n, 2>>) = 0
    BY <1>3, <1>5, <2>2 DEF Appends
  <2>4. QED
    BY <1>1, <1>5, <2>1, <2>2, <2>3 DEF Appends
<1>10. Skips(p, d, z2, n)
  <2>1. Sk(z2, n) = 1 <=> Skipping(p, z2, d[n])
    BY <1>1, <1>2, <1>3 DEF Skips, OwnKnown
  <2>2. p[n].op # "source"
    BY <1>1
  <2>3. Fk(p, z2, n) = 1 /\ K(z2, n) = R(z2, d[n]) /\ K(z2, n) > 0 =>
          Skipping(p, z2, d[n]) \/ Skipped(p, z2, d[n])
    BY <1>1, <1>2, <1>3 DEF Skips, OwnKnown
  <2>4. QED
    BY <2>1, <2>2, <2>3 DEF Skips
<1>11. ASSUME NEW c \in Edges(p), Src(p, c) = n PROVE EdgeCtl(p, d, z2, c)
  <2>1. Edge(p, d, z, c)
    BY AllKnown DEF KnownEdge, EdgeCtl
  <2>2. Edge(p, d, z2, c)
    BY <1>1, <1>3, <1>11, <2>1 DEF Edge
  <2>3. ~ Sees(p, z2, c)
    BY <1>1, <1>11, OwnSeen
  <2>4. QED
    BY <1>1, <1>11, <2>2, <2>3 DEF EdgeCtl, Gets1, Hears
<1>12. ASSUME NEW c \in Edges(p), Src(p, c) # n, c # Executor, c[1] = n
       PROVE  Gets1(p, z2, c) /\ Hears(p, z2, c)
  <2>1. /\ Gets1(p, z, c) /\ Hears(p, z, c) /\ Src(p, c) \in DOMAIN p /\ c[2] \in 1 .. 2
        /\ K(z, Src(p, c)) \in Nat
    BY <1>12, AllKnown DEF KnownEdge, EdgeCtl, Known, NodeViewOK
  <2>2. SameAt(p, z, z2, Src(p, c)) /\ Got(z2, n, c[2]) = Got(z, n, c[2]) /\ A(z2, c) = A(z, c)
    BY <1>1, <1>3, <1>12, <2>1 DEF OwnStep
  <2>3. Sees(p, z2, c) => Sees(p, z, c)
    BY <1>1, <1>5, <1>12 DEF Sees, CLocal
  <2>4. Gets1(p, z2, c)
    BY <1>12, <2>1, <2>2, <2>3 DEF Gets1, SameAt
  <2>5. CASE Sees(p, z, c) /\ Got(z, n, c[2]) = 1
    <3>1. A(z, c) = K(z, Src(p, c))
      BY <1>12, <2>1, <2>5 DEF Gets1
    <3>2. A(z2, c) # K(z2, Src(p, c)) + 1
      BY <2>1, <2>2, <3>1 DEF SameAt
    <3>3. QED
      BY <2>4, <3>2 DEF Hears
  <2>6. CASE ~ (Sees(p, z, c) /\ Got(z, n, c[2]) = 1)
    <3>1. Pc(z, n) = "rows" /\ p[n].op = "filter" => Got(z, n, c[2]) = 1
      BY <1>3, <1>5, <2>1 DEF Filter
    <3>2. Over(p, z, c) => Over(p, z2, c)
      <4>1. CASE p[n].op = "filter"
        BY <1>5, <1>1, <1>12, <2>1, <2>6, <3>1, <4>1 DEF Over, Sees, CLocal
      <4>2. CASE p[n].op = "append"
        BY <1>5, <1>1, <1>12, <2>1, <2>6, <4>2 DEF Over, Sees, CLocal
      <4>3. QED
        BY <1>1, <4>1, <4>2
    <3>3. Hears(p, z2, c)
      BY <1>3, <2>1, <2>2, <3>2 DEF Hears, SameAt
    <3>4. QED
      BY <2>4, <3>3
  <2>7. QED
    BY <2>5, <2>6
<1>13. ASSUME NEW x \in DOMAIN p, x # n, d[x] # Executor, d[x][1] = n, Pc(z2, n) # Pc(z, n)
       PROVE  Ended(p, d, z2, x) /\ Skips(p, d, z2, x)
  <2>1. Known(p, d, z, x) /\ IsDriverOf(p, x, d[x]) /\ Skips(p, d, z, x)
    BY AllKnown DEF Known, NodeCtl
  <2>2. ~ Skipping(p, z, d[x]) /\ ~ Skipped(p, z, d[x])
    BY <1>1, <1>13 DEF Skipping, Skipped, CLocal
  <2>3. CASE ~ (p[n].op = "filter" /\ Pc(z2, n) = "skip_left")
    <3>1. ~ Skipping(p, z2, d[x])
      BY <1>13, <2>3 DEF Skipping
    <3>2. QED
      BY <1>1, <1>13, <2>2, <3>1, OwnDriven
  <2>4. CASE p[n].op = "filter" /\ Pc(z2, n) = "skip_left"
    <3>1. Pc(z, n) = "test" /\ Got(z, n, 2) = 1
      BY <1>13, <2>4 DEF CLocal
    <3>2. d[x] = <<n, 2>>
      BY <1>13, <2>1, <2>4 DEF IsDriverOf
    <3>3. SameAt(p, z, z2, x) /\ Ac(z2, x) = Ac(z, x) /\ ON(z2) = ON(z)
      BY <1>1, <1>13 DEF OwnStep, SameCalls
    <3>4. z.go /\ p[x].op = "linear" => En(z, x) = 0
      BY <1>1, <1>3, <1>5, <2>4, <3>1, <3>2, FilterGoesOn
    <3>5. Ended(p, d, z2, x)
      BY <1>3, <3>3, <3>4 DEF Ended, SameAt
    <3>6. x \notin ON(z2)
      BY <1>3, <1>5, <2>4, <3>2, <3>3, QuietInside DEF Quiet
    <3>7. Skipping(p, z2, d[x])
      BY <1>1, <1>5, <1>13, <2>4 DEF Skipping
    <3>8. Skips(p, d, z2, x)
      BY <2>1, <3>3, <3>6, <3>7 DEF Skips, SameAt
    <3>9. QED
      BY <3>5, <3>8
  <2>5. QED
    BY <2>3, <2>4
<1>14. QED
  BY <1>1, <1>6, <1>7, <1>8, <1>9, <1>10, <1>11, <1>12, <1>13, OwnKeeps

-----------------------------------------------------------------------------
(* A call of get_next() is entered.                                        *)

\* Consumer c begins a round of its driver.
Begins(p, z, c) ==
  \/ c = Executor
  \/ c # Executor /\ p[c[1]].op = "append"
  \/ c # Executor /\ p[c[1]].op = "filter" /\ Pc(z, c[1]) \in {"first_left", "right"}

\* Everything that is seen of node x but the skip request.
StillAt(p, z, z2, x) ==
  /\ Up(z2, x) = Up(z, x) /\ Ac(z2, x) = Ac(z, x)
  /\ Fk(p, z2, x) = Fk(p, z, x) /\ El(z2, x) = El(z, x)
  /\ Pc(z2, x) = Pc(z, x) /\ Arg(z2, x) = Arg(z, x)
  /\ Got(z2, x, 1) = Got(z, x, 1) /\ Got(z2, x, 2) = Got(z, x, 2)

\* A node whose coroutine starts.
FreshAt(p, z, z2, n) ==
  /\ Up(z, n) = 0 /\ K(z, n) = 0 /\ En(z, n) = 0 /\ Ac(z, n) = 0
  /\ Up(z2, n) = 1 /\ Ac(z2, n) = 1 /\ Pc(z2, n) = FirstPc(p[n].op) /\ Arg(z2, n) = 1
  /\ Fk(p, z2, n) = 0 /\ El(z2, n) = 1

\* The consumer c that calls.
Calls(p, z, c) ==
  /\ c \in Edges(p)
  /\ c = Executor => ON(z) = {} /\ z.pc = "call"
  /\ c # Executor => /\ TopIs(p, z, c[1]) /\ Ac(z, c[1]) = 1 /\ Pc(z, c[1]) \in AskingPcs
                     /\ Arg(z, c[1]) = c[2]

CEnter(p, d, z, z2, c, n) ==
  /\ Calls(p, z, c) /\ n = Src(p, c) /\ n \notin ON(z) /\ z.go /\ z2.go /\ z2.pc = z.pc
  /\ ON(z2) = ON(z) \cup {n}
  /\ Ca(z2, c) = 1 /\ \A e \in Edges(p) : e # c => Ca(z2, e) = Ca(z, e)
  /\ \A x \in DOMAIN p : K(z2, x) = K(z, x) /\ En(z2, x) = En(z, x)
  /\ \A x \in DOMAIN p : x # n => StillAt(p, z, z2, x) /\ Sk(z2, x) = Sk(z, x)
  /\ StillAt(p, z, z2, n) \/ FreshAt(p, z, z2, n)
  /\ Sk(z2, n) = 1 <=> (c # Executor /\ Pc(z, c[1]) \in SkippingPcs)
  /\ \A e \in Edges(p) : A(z2, e) = A(z, e)
  /\ \A e \in Edges(p) : e # d[n] \/ ~ Begins(p, z, c) => R(z2, e) = R(z, e)
  /\ Begins(p, z, c) => R(z2, d[n]) = R(z, d[n]) + 1

\* A consumer that calls does so at the start of a round, or is one call behind.
LEMMA CallerRoom ==
  ASSUME NEW p, NEW d, NEW z, NEW c, Ctl(p, d, z), z.go, Calls(p, z, c)
  PROVE  /\ Begins(p, z, c) => RoundStart(p, z, d[Src(p, c)])
         /\ ~ Begins(p, z, c) => A(z, c) + 1 = R(z, d[Src(p, c)])
<1>1. KnownEdge(p, d, z, c) /\ IsPlan(p) /\ IsDriver(p, d) /\ c \in Edges(p)
  BY AllKnown DEF Calls
<1>2. CASE c = Executor
  BY <1>1, <1>2, DriverOf DEF Calls, Begins, RoundStart
<1>3. CASE c # Executor
  <2>1. PICK m \in DOMAIN p, i \in 1 .. 2 : c = <<m, i>> /\ c[1] = m /\ c[2] = i
    BY <1>1, <1>3 DEF KnownEdge
  <2>2. /\ TopIs(p, z, m) /\ Ac(z, m) = 1 /\ Pc(z, m) \in AskingPcs /\ Arg(z, m) = i
        /\ p[m].op \in {"linear", "filter", "append"} /\ Known(p, d, z, m) /\ i \in 1 .. Arity(p, m)
    BY <1>1, <1>3, <2>1 DEF Calls, KnownEdge
  <2>3. Up(z, m) = 1 /\ Pc(z, m) \in Pcs(p[m].op) /\ m # 0 /\ K(z, m) \in Nat
    BY <1>1, <2>1, <2>2, PlanShape DEF Known, NodeViewOK
  <2>4. CASE p[m].op = "linear"
    <3>1. A(z, c) = K(z, m)
      <4>1. Linear(p, z, m) /\ Pc(z, m) \notin {"apply", "fake"}
        BY <2>2 DEF Known, NodeCtl, AskingPcs
      <4>2. A(z, <<m, i>>) = K(z, m)
        BY <2>2, <2>4, <4>1 DEF Linear
      <4>3. QED
        BY <2>1, <4>2
    <3>2. d[Src(p, c)] = d[m]
      BY <1>1, <1>3, <2>1, <2>4, DriverOf
    <3>3. ~ Begins(p, z, c)
      BY <1>3, <2>1, <2>4 DEF Begins
    <3>4. QED
      BY <2>2, <3>1, <3>2, <3>3, ActivePace
  <2>5. CASE p[m].op = "filter"
    <3>1. PICK D : D = <<m, 2>>
      OBVIOUS
    <3>2. d[Src(p, c)] = D /\ D[1] = m /\ D[2] = 2 /\ D # Executor
      BY <1>1, <1>3, <2>1, <2>3, <2>5, <3>1, DriverOf DEF Executor
    <3>3. \A j \in 1 .. 2 : <<m, j>> \in Edges(p)
      BY <1>1, <2>5, PlanArity, IsEdge
    <3>4. \A j \in 1 .. 2 : Ca(z, <<m, j>>) = 0
      BY <2>2, <3>3, TopAsksNobody
    <3>5. Pc(z, m) \in {"first_left", "right"} => RoundStart(p, z, D)
      BY <2>3, <2>5, <3>1, <3>2, <3>4 DEF RoundStart
    <3>6. CASE Begins(p, z, c)
      BY <1>3, <2>1, <2>5, <3>2, <3>5, <3>6 DEF Begins
    <3>7. CASE ~ Begins(p, z, c)
      <4>1. Pc(z, m) \in {"first_right", "left", "skip_left"}
        BY <1>3, <2>1, <2>2, <2>3, <2>5, <3>7 DEF Begins, AskingPcs, Pcs
      <4>2. FilterAt(Pc(z, m), A(z, <<m, 1>>), A(z, <<m, 2>>), R(z, <<m, 2>>), Ca(z, <<m, 1>>), Ca(z, <<m, 2>>))
        BY <2>2, <2>3, <2>5 DEF Known, NodeCtl, Filter
      <4>3. (Pc(z, m) = "first_right" => i = 2) /\ (Pc(z, m) \in {"left", "skip_left"} => i = 1)
        BY <2>2 DEF Known, NodeViewOK
      <4>4. A(z, <<m, 1>>) \in Nat /\ A(z, <<m, 2>>) \in Nat
        BY <3>3, AllKnown DEF KnownEdge, EdgeViewOK
      <4>5. CASE Pc(z, m) = "first_right"
        <5>1. A(z, <<m, 2>>) = 0 /\ R(z, <<m, 2>>) = 1
          BY <4>2, <4>5 DEF FilterAt
        <5>2. QED
          BY <2>1, <3>1, <3>2, <3>7, <4>3, <4>5, <5>1
      <4>6. CASE Pc(z, m) \in {"left", "skip_left"}
        <5>1. R(z, <<m, 2>>) = A(z, <<m, 1>>) + 1
          BY <4>2, <4>4, <4>6 DEF FilterAt
        <5>2. QED
          BY <2>1, <3>1, <3>2, <3>7, <4>3, <4>6, <5>1
      <4>7. QED
        BY <4>1, <4>5, <4>6
    <3>8. QED
      BY <3>6, <3>7
  <2>6. CASE p[m].op = "append"
    <3>1. d[Src(p, c)] = c /\ Begins(p, z, c)
      BY <1>1, <1>3, <2>1, <2>6, DriverOf DEF Begins
    <3>2. \A j \in 1 .. 2 : <<m, j>> \in Edges(p)
      BY <1>1, <2>6, PlanArity, IsEdge
    <3>3. \A j \in 1 .. 2 : Ca(z, <<m, j>>) = 0
      BY <2>2, <3>2, TopAsksNobody
    <3>4. Pc(z, m) = "get"
      BY <2>2, <2>3, <2>6 DEF AskingPcs, Pcs
    <3>5. RoundStart(p, z, c)
      BY <1>3, <2>1, <2>2, <2>3, <2>6, <3>3, <3>4 DEF RoundStart
    <3>6. QED
      BY <3>1, <3>5
  <2>7. QED
    BY <2>2, <2>4, <2>5, <2>6
<1>4. QED
  BY <1>2, <1>3

\* A call asks to skip iff the driver does.
LEMMA CallerSkips ==
  ASSUME NEW p, NEW d, NEW z, NEW c, Ctl(p, d, z), Calls(p, z, c)
  PROVE  (c # Executor /\ Pc(z, c[1]) \in SkippingPcs) <=> Skipping(p, z, d[Src(p, c)])
<1>1. KnownEdge(p, d, z, c) /\ IsPlan(p) /\ IsDriver(p, d) /\ c \in Edges(p)
  BY AllKnown DEF Calls
<1>2. CASE c = Executor
  BY <1>1, <1>2, DriverOf DEF Skipping
<1>3. CASE c # Executor
  <2>1. PICK m \in DOMAIN p, i \in 1 .. 2 : c = <<m, i>> /\ c[1] = m /\ c[2] = i
    BY <1>1, <1>3 DEF KnownEdge
  <2>2. /\ Ac(z, m) = 1 /\ Pc(z, m) \in AskingPcs
        /\ p[m].op \in {"linear", "filter", "append"} /\ Known(p, d, z, m)
    BY <1>1, <1>3, <2>1 DEF Calls, KnownEdge
  <2>3. Up(z, m) = 1 /\ Pc(z, m) \in Pcs(p[m].op) /\ m # 0 /\ m \in ON(z)
    BY <1>1, <2>1, <2>2, PlanShape DEF Known, NodeViewOK
  <2>4. CASE p[m].op = "linear"
    <3>1. d[Src(p, c)] = d[m]
      BY <1>1, <1>3, <2>1, <2>4, DriverOf
    <3>2. Sk(z, m) = 1 <=> Pc(z, m) \in {"drain", "fake"}
      BY <2>2, <2>4 DEF Known, NodeCtl, Linear
    <3>3. Sk(z, m) = 1 <=> Skipping(p, z, d[m])
      BY <2>2, <2>3 DEF Known, NodeCtl, Skips
    <3>4. Pc(z, m) \in SkippingPcs <=> Pc(z, m) \in {"drain", "fake"}
      BY <2>2, <2>3, <2>4 DEF AskingPcs, SkippingPcs, Pcs
    <3>5. QED
      BY <1>3, <2>1, <3>1, <3>2, <3>3, <3>4
  <2>5. CASE p[m].op = "filter"
    <3>1. PICK D : D = <<m, 2>>
      OBVIOUS
    <3>2. d[Src(p, c)] = D /\ D[1] = m /\ D # Executor
      BY <1>1, <1>3, <2>1, <2>3, <2>5, <3>1, DriverOf DEF Executor
    <3>3. Pc(z, m) \in SkippingPcs <=> Pc(z, m) = "skip_left"
      BY <2>3, <2>5 DEF SkippingPcs, Pcs
    <3>4. QED
      BY <1>3, <2>1, <2>3, <2>5, <3>2, <3>3 DEF Skipping
  <2>6. CASE p[m].op = "append"
    <3>1. d[Src(p, c)] = c
      BY <1>1, <1>3, <2>1, <2>6, DriverOf
    <3>2. Pc(z, m) \notin SkippingPcs
      BY <2>3, <2>6 DEF SkippingPcs, Pcs
    <3>3. QED
      BY <2>1, <2>6, <3>1, <3>2 DEF Skipping
  <2>7. QED
    BY <2>2, <2>4, <2>5, <2>6
<1>4. QED
  BY <1>2, <1>3

\* Only a node that has started is asked to skip.
LEMMA SkipStarted ==
  ASSUME NEW p, NEW d, NEW z, NEW c, Ctl(p, d, z), z.go, Calls(p, z, c),
         Skipping(p, z, d[Src(p, c)])
  PROVE  Up(z, Src(p, c)) = 1
<1>1. PICK n : n = Src(p, c)
  OBVIOUS
<1>2. PICK D : D = d[n]
  OBVIOUS
<1>3. /\ KnownEdge(p, d, z, c) /\ IsPlan(p) /\ IsDriver(p, d) /\ c \in Edges(p)
      /\ n \in DOMAIN p /\ Known(p, d, z, n) /\ Edge(p, d, z, c) /\ A(z, c) \in Nat
  BY <1>1, AllKnown DEF Calls, KnownEdge, EdgeCtl, EdgeViewOK
<1>4. /\ D # Executor /\ D = <<D[1], D[2]>> /\ p[D[1]].op = "filter" /\ D[1] \in DOMAIN p /\ D[2] = 2
      /\ Up(z, D[1]) = 1 /\ Pc(z, D[1]) = "skip_left"
  BY <1>1, <1>2, <1>3 DEF Skipping, Known, IsDriverOf
<1>5. PICK f \in DOMAIN p : f = D[1] /\ D = <<f, 2>>
  BY <1>4
<1>6. FilterAt("skip_left", A(z, <<f, 1>>), A(z, <<f, 2>>), R(z, <<f, 2>>), Ca(z, <<f, 1>>), Ca(z, <<f, 2>>))
  BY <1>4, <1>5, AllKnown DEF Known, NodeCtl, Filter
<1>7. <<f, 1>> \in Edges(p)
  BY <1>3, <1>4, <1>5, PlanArity, IsEdge
<1>8. A(z, <<f, 1>>) \in Nat
  BY <1>7, AllKnown DEF KnownEdge, EdgeViewOK
<1>9. R(z, D) = A(z, <<f, 1>>) + 1 /\ A(z, <<f, 1>>) >= 1
  BY <1>5, <1>6, <1>8 DEF FilterAt
<1>10. ~ Begins(p, z, c)
  <2> SUFFICES ASSUME Begins(p, z, c) PROVE FALSE
    OBVIOUS
  <2>1. RoundStart(p, z, D)
    BY <1>1, <1>2, CallerRoom
  <2>2. QED
    BY <1>4, <2>1 DEF RoundStart
<1>11. A(z, c) + 1 = R(z, D)
  BY <1>1, <1>2, <1>10, CallerRoom
<1>12. A(z, c) >= 1
  BY <1>3, <1>8, <1>9, <1>11
<1>13. NodeViewOK(p, z, n)
  BY <1>3 DEF Known
<1>14. CASE Up(z, n) = 0
  <2>1. K(z, n) = 0 /\ En(z, n) # 1
    BY <1>13, <1>14 DEF NodeViewOK
  <2>2. QED
    BY <1>1, <1>3, <1>12, <2>1 DEF Edge
<1>15. QED
  BY <1>1, <1>13, <1>14 DEF NodeViewOK


\* What is known of a call that is entered.
EnterKnown(p, d, z, z2, c, n) ==
  /\ IsPlan(p) /\ IsDriver(p, d) /\ c \in Edges(p) /\ n = Src(p, c) /\ n \in DOMAIN p /\ n \notin ON(z)
  /\ d[n] \in Edges(p) /\ IsDriverOf(p, n, d[n])
  /\ Ac(z, n) = 0 /\ Ca(z, c) = 0 /\ Known(p, d, z, n)
  /\ \A i \in 1 .. Arity(p, n) : Ca(z, <<n, i>>) = 0 /\ <<n, i>> # c /\ <<n, i>> # d[n]
  /\ A(z, c) + 1 = R(z2, d[n]) /\ R(z, d[n]) \in Nat
  /\ Sk(z2, n) = 1 <=> Skipping(p, z, d[n])
  /\ Sk(z2, n) = 1 => StillAt(p, z, z2, n)
  /\ \A x \in DOMAIN p : /\ Skipping(p, z2, d[x]) <=> Skipping(p, z, d[x])
                         /\ Up(z2, x) = 1 \/ Up(z2, x) = Up(z, x)
  /\ \A e \in Edges(p) : Ca(z, e) = 1 => Ca(z2, e) = 1

LEMMA EnterKnows ==
  ASSUME NEW p, NEW d, NEW z, NEW z2, NEW c, NEW n, Ctl(p, d, z), Good(p, z2),
         CEnter(p, d, z, z2, c, n)
  PROVE  EnterKnown(p, d, z, z2, c, n)
<1>1. /\ IsPlan(p) /\ IsDriver(p, d) /\ c \in Edges(p) /\ n = Src(p, c) /\ n \notin ON(z)
      /\ Calls(p, z, c) /\ z.go /\ KnownEdge(p, d, z, c)
  BY AllKnown DEF CEnter, Calls
<1>2. n \in DOMAIN p /\ Known(p, d, z, n)
  BY <1>1 DEF KnownEdge
<1>3. d[n] \in Edges(p) /\ IsDriverOf(p, n, d[n]) /\ R(z, d[n]) \in Nat /\ NodeViewOK(p, z, n) /\ n \in Nat
  BY <1>2 DEF Known
<1>4. Ac(z, n) = 0
  BY <1>1, <1>3 DEF NodeViewOK
<1>5. Ca(z, c) = 0
  BY <1>1 DEF KnownEdge, EdgeViewOK
<1>6. ASSUME NEW i \in 1 .. Arity(p, n) PROVE Ca(z, <<n, i>>) = 0 /\ <<n, i>> # c /\ <<n, i>> # d[n]
  <2>1. PICK e : e = <<n, i>>
    OBVIOUS
  <2>2. e \in Edges(p) /\ e # Executor /\ e[1] = n
    BY <1>1, <1>2, <2>1, IsEdge
  <2>3. EdgeViewOK(p, z, e)
    BY <2>2, AllKnown DEF KnownEdge
  <2>4. Ca(z, e) = 0
    BY <1>4, <2>2, <2>3 DEF EdgeViewOK
  <2>5. e # c
    BY <1>1, <2>2 DEF KnownEdge
  <2>6. e # d[n]
    BY <1>3, <2>2 DEF IsDriverOf
  <2>7. QED
    BY <2>1, <2>4, <2>5, <2>6
<1>7. A(z, c) + 1 = R(z2, d[n])
  <2>1. CASE Begins(p, z, c)
    <3>1. RoundStart(p, z, d[n])
      BY <1>1, <2>1, CallerRoom
    <3>2. A(z, c) = R(z, d[n])
      BY <1>1, <3>1, RoundStarts
    <3>3. QED
      BY <2>1, <3>2 DEF CEnter
  <2>2. CASE ~ Begins(p, z, c)
    <3>1. A(z, c) + 1 = R(z, d[n])
      BY <1>1, <2>2, CallerRoom
    <3>2. R(z2, d[n]) = R(z, d[n])
      BY <1>3, <2>2 DEF CEnter
    <3>3. QED
      BY <3>1, <3>2
  <2>3. QED
    BY <2>1, <2>2
<1>8. Sk(z2, n) = 1 <=> Skipping(p, z, d[n])
  BY <1>1, CallerSkips DEF CEnter
<1>9. Sk(z2, n) = 1 => StillAt(p, z, z2, n)
  <2> HAVE Sk(z2, n) = 1
  <2>1. Up(z, n) = 1
    BY <1>1, <1>8, SkipStarted
  <2>2. QED
    BY <2>1 DEF CEnter, FreshAt
<1>10. ASSUME NEW x \in DOMAIN p PROVE Up(z2, x) = 1 \/ Up(z2, x) = Up(z, x)
  BY DEF CEnter, StillAt, FreshAt
<1>11. ASSUME NEW x \in DOMAIN p PROVE Skipping(p, z2, d[x]) <=> Skipping(p, z, d[x])
  <2>1. IsDriverOf(p, x, d[x])
    BY AllKnown DEF Known
  <2>2. CASE d[x] = Executor
    BY <2>2 DEF Skipping
  <2>3. CASE d[x] # Executor
    <3>1. d[x][1] \in DOMAIN p
      BY <2>1, <2>3 DEF IsDriverOf
    <3>2. CASE StillAt(p, z, z2, d[x][1])
      BY <3>2 DEF Skipping, StillAt
    <3>3. CASE ~ StillAt(p, z, z2, d[x][1])
      <4>1. d[x][1] = n /\ FreshAt(p, z, z2, n)
        BY <3>1, <3>3 DEF CEnter
      <4>2. QED
        BY <4>1 DEF Skipping, FreshAt, FirstPc
    <3>4. QED
      BY <3>2, <3>3
  <2>4. QED
    BY <2>2, <2>3
<1>12. \A e \in Edges(p) : Ca(z, e) = 1 => Ca(z2, e) = 1
  BY DEF CEnter
<1>13. QED
  BY <1>1, <1>2, <1>3, <1>4, <1>5, <1>6, <1>7, <1>8, <1>9, <1>10, <1>11, <1>12 DEF EnterKnown

LEMMA EnterBegins ==
  ASSUME NEW p, NEW d, NEW z, NEW z2, NEW c, NEW n, Ctl(p, d, z), Good(p, z2),
         CEnter(p, d, z, z2, c, n), Begins(p, z, c)
  PROVE  /\ Quiet(p, d, z, d[n])
         /\ \A x \in DOMAIN p : d[x] = d[n] /\ p[x].op = "linear" => En(z, x) = 0
         /\ \A e \in Edges(p) : d[Src(p, e)] = d[n] => A(z, e) = R(z, d[n])
<1>1. RoundStart(p, z, d[n]) /\ z.go
  BY CallerRoom DEF CEnter
<1>2. QED
  BY <1>1, RoundStarts

LEMMA EnterNode ==
  ASSUME NEW p, NEW d, NEW z, NEW z2, NEW c, NEW n, Ctl(p, d, z), Good(p, z2),
         CEnter(p, d, z, z2, c, n), NEW x \in DOMAIN p
  PROVE  Pace(d, z2, x) /\ Linear(p, z2, x) /\ Busy(p, d, z2, x) /\ Asked(p, z2, x)
<1>1. EnterKnown(p, d, z, z2, c, n) /\ Known(p, d, z, x)
  BY EnterKnows, AllKnown
<1>2. /\ NodeViewOK(p, z, x) /\ NodeViewOK(p, z2, x) /\ R(z, d[x]) \in Nat /\ d[x] \in Edges(p)
      /\ Pace(d, z, x) /\ Linear(p, z, x) /\ Busy(p, d, z, x) /\ Asked(p, z, x) /\ IsDriverOf(p, x, d[x])
  BY <1>1, Views DEF Known, NodeCtl, ViewOK
<1>3. /\ K(z2, x) = K(z, x) /\ En(z2, x) = En(z, x) /\ K(z, x) \in Nat
      /\ x # n => StillAt(p, z, z2, x) /\ Sk(z2, x) = Sk(z, x)
      /\ StillAt(p, z, z2, n) \/ FreshAt(p, z, z2, n)
      /\ z.go /\ z2.go
      /\ Ac(z2, x) \in {0, 1} /\ En(z, x) \in {0, 1}
  BY <1>2 DEF CEnter, NodeViewOK
<1>4. R(z2, d[x]) = R(z, d[x]) \/ R(z2, d[x]) = R(z, d[x]) + 1
  BY <1>2 DEF CEnter
<1>5. Pace(d, z2, x)
  <2>1. CASE x # n
    BY <1>2, <1>3, <1>4, <2>1 DEF Pace, StillAt
  <2>2. CASE x = n /\ StillAt(p, z, z2, n)
    BY <1>2, <1>3, <1>4, <2>2 DEF Pace, StillAt
  <2>3. CASE x = n /\ FreshAt(p, z, z2, n)
    <3>1. A(z, c) + 1 = R(z2, d[n]) /\ A(z, c) \in Nat
      BY <1>1, AllKnown DEF EnterKnown, KnownEdge, EdgeViewOK
    <3>2. QED
      BY <1>3, <2>3, <3>1 DEF Pace, FreshAt
  <2>4. QED
    BY <1>3, <2>1, <2>2, <2>3
<1>6. Linear(p, z2, x)
  <2> SUFFICES ASSUME p[x].op = "linear" PROVE Linear(p, z2, x)
    BY DEF Linear
  <2>1. \A i \in 1 .. Arity(p, x) : A(z2, <<x, i>>) = A(z, <<x, i>>)
    BY <1>1, IsEdge DEF CEnter, EnterKnown
  <2>2. CASE x # n
    BY <1>2, <1>3, <2>1, <2>2 DEF Linear, StillAt
  <2>3. CASE x = n /\ StillAt(p, z, z2, n)
    <3>1. Ac(z2, x) = 0 /\ Ac(z, x) = 0
      BY <1>1, <2>3 DEF EnterKnown, StillAt
    <3>2. QED
      BY <1>2, <1>3, <2>1, <2>3, <3>1 DEF Linear
  <2>4. CASE x = n /\ FreshAt(p, z, z2, n)
    <3>1. \A i \in 1 .. Arity(p, x) : A(z2, <<x, i>>) = 0
      BY <1>2, <2>1, <2>4 DEF Linear, FreshAt
    <3>2. Pc(z2, x) = "get" /\ Arg(z2, x) = 1 /\ K(z2, x) = 0 /\ Ac(z2, x) = 1 /\ En(z2, x) = 0
      BY <1>3, <2>4 DEF FreshAt, FirstPc
    <3>3. Sk(z2, x) # 1
      BY <1>1, <2>4 DEF EnterKnown, FreshAt, StillAt
    <3>4. \A i \in 1 .. Arity(p, x) : ~ (i < 1)
      BY <1>1, PlanShape DEF EnterKnown
    <3>5. QED
      BY <3>1, <3>2, <3>3, <3>4 DEF Linear
  <2>5. QED
    BY <1>3, <2>2, <2>3, <2>4
<1>7. Asked(p, z2, x)
  <2>1. \A e \in Edges(p) : e # Executor => e[1] \in DOMAIN p
    BY AllKnown DEF KnownEdge
  <2>2. \A e \in Edges(p) : e # Executor /\ Up(z, e[1]) = 1 => Up(z2, e[1]) = 1
    BY <1>1, <2>1 DEF EnterKnown
  <2>3. CASE x # n
    BY <1>2, <1>3, <2>2, <2>3 DEF Asked, StillAt
  <2>4. CASE x = n
    <3>1. c \in Edges(p) /\ Src(p, c) = n
      BY <1>1 DEF EnterKnown
    <3>2. c # Executor => Ac(z, c[1]) = 1 /\ c[1] \in DOMAIN p
      BY <2>1, <3>1 DEF CEnter, Calls
    <3>3. c # Executor => Up(z, c[1]) = 1
      BY <3>2, AllKnown DEF Known, NodeViewOK
    <3>4. QED
      BY <2>2, <2>4, <3>1, <3>3 DEF Asked
  <2>5. QED
    BY <2>3, <2>4
<1>8. Busy(p, d, z2, x)
  <2> SUFFICES ASSUME x \in ON(z2), d[x] # Executor
               PROVE  /\ Ac(z2, d[x][1]) = 1
                      /\ p[d[x][1]].op = "append" => Ca(z2, d[x]) = 1
                      /\ p[d[x][1]].op = "filter" => Ca(z2, <<d[x][1], 1>>) = 1 \/ Ca(z2, <<d[x][1], 2>>) = 1
    BY DEF Busy
  <2>1. /\ d[x][1] \in DOMAIN p /\ p[d[x][1]].op \in {"filter", "append"}
        /\ p[d[x][1]].op = "filter" => <<d[x][1], 1>> \in Edges(p) /\ <<d[x][1], 2>> \in Edges(p)
    <3>1. d[x][1] \in DOMAIN p /\ p[d[x][1]].op \in {"filter", "append"}
      BY <1>2 DEF IsDriverOf
    <3>2. p[d[x][1]].op = "filter" => <<d[x][1], 1>> \in Edges(p) /\ <<d[x][1], 2>> \in Edges(p)
      BY <1>1, <3>1, PlanArity, IsEdge DEF EnterKnown
    <3>3. QED
      BY <3>1, <3>2
  <2>2. ASSUME NEW y \in DOMAIN p, y \in ON(z), d[y] = d[x]
        PROVE  /\ Ac(z2, d[x][1]) = 1
               /\ p[d[x][1]].op = "append" => Ca(z2, d[x]) = 1
               /\ p[d[x][1]].op = "filter" => Ca(z2, <<d[x][1], 1>>) = 1 \/ Ca(z2, <<d[x][1], 2>>) = 1
    <3>1. Busy(p, d, z, y)
      BY AllKnown DEF Known, NodeCtl
    <3>2. /\ Ac(z, d[x][1]) = 1
          /\ p[d[x][1]].op = "append" => Ca(z, d[x]) = 1
          /\ p[d[x][1]].op = "filter" => Ca(z, <<d[x][1], 1>>) = 1 \/ Ca(z, <<d[x][1], 2>>) = 1
      BY <2>2, <3>1 DEF Busy
    <3>3. d[x][1] # n
      BY <1>1, <3>2 DEF EnterKnown
    <3>4. Ac(z2, d[x][1]) = 1
      BY <2>1, <3>2, <3>3 DEF CEnter, StillAt
    <3>5. QED
      BY <1>1, <1>2, <2>1, <3>2, <3>4 DEF EnterKnown
  <2>3. CASE x # n
    <3>1. x \in ON(z)
      BY <2>3 DEF CEnter
    <3>2. QED
      BY <2>2, <3>1
  <2>4. CASE x = n
    <3>1. c # Executor
      BY <1>1, <2>4, DriverOf DEF EnterKnown
    <3>2. PICK m \in DOMAIN p, i \in 1 .. 2 : c = <<m, i>> /\ c[1] = m /\ c[2] = i
      BY <1>1, <3>1, AllKnown DEF KnownEdge, EnterKnown
    <3>3. m \in ON(z) /\ Ac(z, m) = 1 /\ m # n /\ p[m].op \in {"linear", "filter", "append"}
      <4>1. KnownEdge(p, d, z, c)
        BY <1>1, AllKnown DEF EnterKnown
      <4>2. QED
        BY <1>1, <3>1, <3>2, <4>1 DEF CEnter, Calls, TopIs, EnterKnown, KnownEdge
    <3>4. CASE p[m].op = "linear"
      <4>1. d[n] = d[m]
        BY <1>1, <3>1, <3>2, <3>4, DriverOf DEF EnterKnown
      <4>2. QED
        BY <2>2, <2>4, <3>3, <4>1
    <3>5. Ac(z2, m) = 1 /\ Ca(z2, c) = 1
      BY <3>3 DEF CEnter, StillAt
    <3>6. CASE p[m].op = "filter"
      <4>1. d[n] = <<m, 2>>
        BY <1>1, <3>1, <3>2, <3>6, DriverOf DEF EnterKnown
      <4>2. d[x][1] = m
        BY <2>4, <4>1
      <4>3. QED
        BY <3>2, <3>5, <3>6, <4>2
    <3>7. CASE p[m].op = "append"
      <4>1. d[n] = c
        BY <1>1, <3>1, <3>2, <3>7, DriverOf DEF EnterKnown
      <4>2. QED
        BY <2>4, <3>2, <3>5, <3>7, <4>1
    <3>8. QED
      BY <3>3, <3>4, <3>6, <3>7
  <2>5. QED
    BY <2>3, <2>4
<1>9. QED
  BY <1>5, <1>6, <1>7, <1>8


LEMMA EnterFilter ==
  ASSUME NEW p, NEW d, NEW z, NEW z2, NEW c, NEW n, Ctl(p, d, z), Good(p, z2),
         CEnter(p, d, z, z2, c, n), NEW x \in DOMAIN p, p[x].op = "filter"
  PROVE  Filter(p, z2, x)
<1>1. EnterKnown(p, d, z, z2, c, n) /\ Known(p, d, z, x) /\ Filter(p, z, x) /\ IsPlan(p) /\ IsDriver(p, d)
  BY EnterKnows, AllKnown DEF Known, NodeCtl
<1>2. <<x, 1>> \in Edges(p) /\ <<x, 2>> \in Edges(p) /\ Arity(p, x) = 2 /\ x # 0
  BY <1>1, PlanArity, IsEdge, PlanShape
<1>3. PICK u \in Nat, v \in Nat, w \in Nat :
        u = A(z, <<x, 1>>) /\ v = A(z, <<x, 2>>) /\ w = R(z, <<x, 2>>)
  BY <1>2, AllKnown DEF KnownEdge, EdgeViewOK
<1>4. A(z2, <<x, 1>>) = u /\ A(z2, <<x, 2>>) = v
  BY <1>2, <1>3 DEF CEnter
<1>5. CASE c # Executor /\ c[1] = x
  <2>1. PICK i \in 1 .. 2 : c = <<x, i>> /\ c[2] = i
    BY <1>1, <1>5, AllKnown DEF EnterKnown, KnownEdge
  <2>2. /\ TopIs(p, z, x) /\ Ac(z, x) = 1 /\ Pc(z, x) \in AskingPcs /\ Arg(z, x) = i
    BY <1>5, <2>1 DEF CEnter, Calls
  <2>3. Ca(z, <<x, 1>>) = 0 /\ Ca(z, <<x, 2>>) = 0
    BY <1>2, <2>2, TopAsksNobody
  <2>4. /\ Up(z, x) = 1 /\ Pc(z, x) \in Pcs("filter")
        /\ (Pc(z, x) \in {"first_left", "left", "skip_left"} => i = 1)
        /\ (Pc(z, x) \in {"first_right", "right"} => i = 2)
    BY <1>1, <2>2 DEF Known, NodeViewOK
  <2>5. FilterAt(Pc(z, x), u, v, w, 0, 0) /\ (Pc(z, x) = "skip_left" => Got(z, x, 2) = 1)
    BY <1>1, <1>3, <2>3, <2>4 DEF Filter
  <2>6. x # n /\ d[n] = <<x, 2>>
    BY <1>1, <1>5, AllKnown, DriverOf DEF EnterKnown, KnownEdge
  <2>7. StillAt(p, z, z2, x)
    BY <2>6 DEF CEnter
  <2>8. Ca(z2, <<x, i>>) = 1 /\ \A j \in 1 .. 2 : j # i => Ca(z2, <<x, j>>) = 0
    BY <1>2, <2>1, <2>3 DEF CEnter
  <2>9. CASE Pc(z, x) \in {"first_left", "right"}
    <3>1. Begins(p, z, c)
      BY <1>5, <2>1, <2>9 DEF Begins
    <3>2. R(z2, <<x, 2>>) = w + 1
      BY <1>3, <2>6, <3>1 DEF CEnter
    <3>3. PICK l \in Nat, r \in Nat : l = Ca(z2, <<x, 1>>) /\ r = Ca(z2, <<x, 2>>)
      BY <2>8
    <3>4. FilterAt(Pc(z, x), u, v, w + 1, l, r)
      BY <2>4, <2>5, <2>8, <2>9, <3>3 DEF FilterAt
    <3>5. QED
      BY <1>4, <2>4, <2>7, <2>9, <3>2, <3>3, <3>4 DEF Filter, StillAt
  <2>10. CASE Pc(z, x) \notin {"first_left", "right"}
    <3>1. ~ Begins(p, z, c)
      BY <1>5, <2>1, <2>10 DEF Begins
    <3>2. R(z2, <<x, 2>>) = w
      BY <1>2, <1>3, <3>1 DEF CEnter
    <3>3. PICK l, r : l = Ca(z2, <<x, 1>>) /\ r = Ca(z2, <<x, 2>>)
      OBVIOUS
    <3>4. FilterAt(Pc(z, x), u, v, w, l, r)
      BY <2>5, <2>10 DEF FilterAt
    <3>5. Pc(z, x) # "rows"
      BY <2>2 DEF AskingPcs
    <3>6. QED
      BY <1>4, <2>4, <2>5, <2>7, <3>2, <3>3, <3>4, <3>5 DEF Filter, StillAt
  <2>11. QED
    BY <2>9, <2>10
<1>6. CASE ~ (c # Executor /\ c[1] = x)
  <2>1. <<x, 1>> # c /\ <<x, 2>> # c
    BY <1>2, <1>6 DEF Executor
  <2>2. Ca(z2, <<x, 1>>) = Ca(z, <<x, 1>>) /\ Ca(z2, <<x, 2>>) = Ca(z, <<x, 2>>)
    BY <1>2, <2>1 DEF CEnter
  <2>3. ~ Begins(p, z, c) \/ <<x, 2>> # d[n]
    <3> SUFFICES ASSUME Begins(p, z, c), <<x, 2>> = d[n] PROVE FALSE
      OBVIOUS
    <3>1. CASE c = Executor
      BY <1>1, <1>2, <3>1, DriverOf DEF EnterKnown, Executor
    <3>2. CASE c # Executor /\ p[c[1]].op = "append"
      <4>1. d[n] = c
        BY <1>1, <3>2, DriverOf DEF EnterKnown
      <4>2. QED
        BY <2>1, <4>1
    <3>3. CASE c # Executor /\ p[c[1]].op = "filter"
      <4>1. d[n] = <<c[1], 2>>
        BY <1>1, <3>3, DriverOf DEF EnterKnown
      <4>2. QED
        BY <1>6, <3>3, <4>1
    <3>4. QED
      BY <3>1, <3>2, <3>3 DEF Begins
  <2>4. R(z2, <<x, 2>>) = w
    BY <1>2, <1>3, <2>3 DEF CEnter
  <2>5. CASE StillAt(p, z, z2, x)
    BY <1>1, <1>3, <1>4, <2>2, <2>4, <2>5 DEF Filter, StillAt
  <2>6. CASE ~ StillAt(p, z, z2, x)
    <3>1. x = n /\ FreshAt(p, z, z2, n)
      BY <2>6 DEF CEnter
    <3>2. u = 0 /\ v = 0 /\ w = 0
      BY <1>1, <1>3, <3>1 DEF Filter, FreshAt
    <3>3. Ca(z2, <<x, 1>>) = 0
      BY <1>1, <1>2, <2>2, <3>1 DEF EnterKnown
    <3>4. Pc(z2, x) = "first_left" /\ Up(z2, x) = 1
      BY <3>1 DEF FreshAt, FirstPc
    <3>5. QED
      BY <1>4, <2>4, <3>2, <3>3, <3>4 DEF Filter, FilterAt
  <2>7. QED
    BY <2>5, <2>6
<1>7. QED
  BY <1>5, <1>6

LEMMA EnterAppend ==
  ASSUME NEW p, NEW d, NEW z, NEW z2, NEW c, NEW n, Ctl(p, d, z), Good(p, z2),
         CEnter(p, d, z, z2, c, n), NEW x \in DOMAIN p, p[x].op = "append"
  PROVE  Appends(p, z2, x)
<1>1. EnterKnown(p, d, z, z2, c, n) /\ Known(p, d, z, x) /\ Appends(p, z, x) /\ IsPlan(p) /\ IsDriver(p, d)
  BY EnterKnows, AllKnown DEF Known, NodeCtl
<1>2. \A i \in 1 .. 2 : <<x, i>> \in Edges(p) /\ <<x, i>> # Executor
  BY <1>1, PlanArity, IsEdge
<1>3. \A i \in 1 .. 2 : A(z2, <<x, i>>) = A(z, <<x, i>>)
  BY <1>2 DEF CEnter
<1>4. ASSUME NEW i \in 1 .. 2 PROVE R(z2, <<x, i>>) = A(z2, <<x, i>>) + Ca(z2, <<x, i>>)
  <2>1. PICK e \in Edges(p) : e = <<x, i>> /\ e # Executor /\ e[1] = x
    BY <1>2
  <2>2. R(z, e) = A(z, e) + Ca(z, e) /\ A(z, e) \in Nat /\ A(z2, e) = A(z, e)
    <3>1. R(z, <<x, i>>) = A(z, <<x, i>>) + Ca(z, <<x, i>>)
      BY <1>1 DEF Appends
    <3>2. A(z, e) \in Nat
      BY AllKnown DEF KnownEdge, EdgeViewOK
    <3>3. QED
      BY <1>3, <2>1, <3>1, <3>2
  <2>3. CASE e = c
    <3>1. Begins(p, z, c) /\ d[n] = c
      BY <1>1, <2>1, <2>3, DriverOf DEF EnterKnown, Begins
    <3>2. Ca(z, c) = 0 /\ Ca(z2, c) = 1 /\ R(z2, c) = R(z, c) + 1
      BY <1>1, <3>1 DEF CEnter, EnterKnown
    <3>3. QED
      BY <2>1, <2>2, <2>3, <3>2
  <2>4. CASE e # c
    <3>1. ~ Begins(p, z, c) \/ e # d[n]
      <4> SUFFICES ASSUME Begins(p, z, c), e = d[n] PROVE FALSE
        OBVIOUS
      <4>1. CASE c = Executor
        BY <1>1, <2>1, <4>1, DriverOf DEF EnterKnown
      <4>2. CASE c # Executor /\ p[c[1]].op = "append"
        BY <1>1, <2>4, <4>2, DriverOf DEF EnterKnown
      <4>3. CASE c # Executor /\ p[c[1]].op = "filter"
        <5>1. d[n] = <<c[1], 2>>
          BY <1>1, <4>3, DriverOf DEF EnterKnown
        <5>2. <<x, i>> = <<c[1], 2>>
          BY <2>1, <5>1
        <5>3. x = c[1]
          BY <5>2
        <5>4. QED
          BY <4>3, <5>3
      <4>4. QED
        BY <4>1, <4>2, <4>3 DEF Begins
    <3>2. R(z2, e) = R(z, e) /\ Ca(z2, e) = Ca(z, e)
      BY <2>4, <3>1 DEF CEnter
    <3>3. QED
      BY <2>1, <2>2, <3>2
  <2>5. QED
    BY <2>3, <2>4
<1>5. CASE StillAt(p, z, z2, x)
  BY <1>1, <1>3, <1>4, <1>5 DEF Appends, StillAt
<1>6. CASE ~ StillAt(p, z, z2, x)
  <2>1. x = n /\ FreshAt(p, z, z2, n)
    BY <1>6 DEF CEnter
  <2>2. A(z, <<x, 2>>) = 0
    BY <1>1, <2>1 DEF Appends, FreshAt
  <2>3. A(z2, <<x, 2>>) = 0
    BY <1>3, <2>2
  <2>4. Pc(z2, x) = "get" /\ Up(z2, x) = 1
    BY <2>1 DEF FreshAt, FirstPc
  <2>5. QED
    BY <1>4, <2>3, <2>4 DEF Appends
<1>7. QED
  BY <1>5, <1>6

LEMMA EnterSkip ==
  ASSUME NEW p, NEW d, NEW z, NEW z2, NEW c, NEW n, Ctl(p, d, z), Good(p, z2),
         CEnter(p, d, z, z2, c, n), NEW x \in DOMAIN p
  PROVE  Ended(p, d, z2, x) /\ Skips(p, d, z2, x)
<1>1. EnterKnown(p, d, z, z2, c, n) /\ Known(p, d, z, x)
  BY EnterKnows, AllKnown
<1>2. /\ NodeViewOK(p, z, x) /\ NodeViewOK(p, z2, x) /\ R(z, d[x]) \in Nat /\ d[x] \in Edges(p)
      /\ Pace(d, z, x) /\ Ended(p, d, z, x) /\ Skips(p, d, z, x) /\ IsDriverOf(p, x, d[x])
  BY <1>1, Views DEF Known, NodeCtl, ViewOK
<1>3. /\ K(z2, x) = K(z, x) /\ En(z2, x) = En(z, x) /\ K(z, x) \in Nat /\ En(z, x) \in {0, 1}
      /\ x # n => StillAt(p, z, z2, x) /\ Sk(z2, x) = Sk(z, x)
      /\ StillAt(p, z, z2, n) \/ FreshAt(p, z, z2, n)
      /\ z.go /\ z2.go /\ ON(z2) = ON(z) \cup {n}
      /\ \A e \in Edges(p) : A(z2, e) = A(z, e)
  BY <1>2 DEF CEnter, NodeViewOK
<1>4. Skipping(p, z2, d[x]) <=> Skipping(p, z, d[x])
  BY <1>1 DEF EnterKnown
<1>5. \A e \in Edges(p) : Ca(z, e) = 1 => Ca(z2, e) = 1
  BY <1>1 DEF EnterKnown
<1>6. x \in ON(z2) => (Sk(z2, x) = 1 <=> Skipping(p, z2, d[x]))
  <2>1. CASE x # n
    BY <1>2, <1>3, <1>4, <2>1 DEF Skips
  <2>2. CASE x = n
    BY <1>1, <1>4, <2>2 DEF EnterKnown
  <2>3. QED
    BY <2>1, <2>2
<1>7. p[x].op = "source" => El(z2, x) = 1 /\ (Ac(z2, x) = 1 => Fk(p, z2, x) = Sk(z2, x))
  <2>1. CASE x # n
    BY <1>2, <1>3, <2>1 DEF Skips, StillAt
  <2>2. CASE x = n /\ StillAt(p, z, z2, n)
    BY <1>1, <1>2, <2>2 DEF Skips, StillAt, EnterKnown
  <2>3. CASE x = n /\ FreshAt(p, z, z2, n)
    <3>1. Sk(z2, x) = 0
      BY <1>1, <1>2, <2>3 DEF EnterKnown, FreshAt, StillAt, NodeViewOK
    <3>2. QED
      BY <2>3, <3>1 DEF FreshAt
  <2>4. QED
    BY <1>3, <2>1, <2>2, <2>3
<1>8. CASE Begins(p, z, c) /\ d[x] = d[n]
  <2>1. R(z2, d[x]) = R(z, d[x]) + 1
    BY <1>8 DEF CEnter
  <2>2. K(z2, x) # R(z2, d[x])
    BY <1>2, <1>3, <2>1 DEF Pace
  <2>3. Skips(p, d, z2, x)
    BY <1>6, <1>7, <2>2 DEF Skips
  <2>4. p[x].op = "linear" => En(z2, x) = 0
    BY <1>3, <1>8, EnterBegins
  <2>5. QED
    BY <2>3, <2>4 DEF Ended
<1>9. CASE ~ (Begins(p, z, c) /\ d[x] = d[n])
  <2>1. R(z2, d[x]) = R(z, d[x])
    BY <1>2, <1>9 DEF CEnter
  <2>2. Ended(p, d, z2, x)
    BY <1>2, <1>3, <1>4, <1>5, <2>1 DEF Ended
  <2>3. Skipped(p, z, d[x]) => Skipped(p, z2, d[x])
    <3> HAVE Skipped(p, z, d[x])
    <3>1. /\ d[x] # Executor /\ p[d[x][1]].op = "filter" /\ Up(z, d[x][1]) = 1
          /\ Pc(z, d[x][1]) = "right" /\ Ca(z, d[x]) = 0 /\ d[x][1] \in DOMAIN p
          /\ d[x] = <<d[x][1], 2>>
      BY <1>2 DEF Skipped, IsDriverOf
    <3>2. StillAt(p, z, z2, d[x][1])
      BY <3>1 DEF CEnter, FreshAt
    <3>3. d[x] # c
      <4> SUFFICES ASSUME d[x] = c PROVE FALSE
        OBVIOUS
      <4>1. Begins(p, z, c)
        BY <3>1 DEF Begins
      <4>2. d[n] = <<c[1], 2>>
        BY <1>1, <3>1, DriverOf DEF EnterKnown
      <4>3. QED
        BY <1>9, <3>1, <4>1, <4>2
    <3>4. Ca(z2, d[x]) = 0
      BY <1>2, <3>1, <3>3 DEF CEnter
    <3>5. QED
      BY <3>1, <3>2, <3>4 DEF Skipped, StillAt
  <2>4. Fk(p, z2, x) = 1 /\ K(z2, x) > 0 => Fk(p, z, x) = 1
    <3>1. CASE StillAt(p, z, z2, x)
      BY <3>1 DEF StillAt
    <3>2. CASE ~ StillAt(p, z, z2, x)
      BY <1>3, <3>2 DEF FreshAt
    <3>3. QED
      BY <3>1, <3>2
  <2>5. Skips(p, d, z2, x)
    BY <1>2, <1>3, <1>4, <1>6, <1>7, <2>1, <2>3, <2>4 DEF Skips
  <2>6. QED
    BY <2>2, <2>5
<1>10. QED
  BY <1>8, <1>9

LEMMA EnterEdge ==
  ASSUME NEW p, NEW d, NEW z, NEW z2, NEW c, NEW n, Ctl(p, d, z), Good(p, z2),
         CEnter(p, d, z, z2, c, n), NEW e \in Edges(p)
  PROVE  EdgeCtl(p, d, z2, e)
<1>1. EnterKnown(p, d, z, z2, c, n) /\ KnownEdge(p, d, z, e)
  BY EnterKnows, AllKnown
<1>2. PICK s \in DOMAIN p : s = Src(p, e)
  BY <1>1 DEF KnownEdge
<1>3. /\ EdgeViewOK(p, z, e) /\ EdgeViewOK(p, z2, e) /\ Edge(p, d, z, e) /\ Gets1(p, z, e) /\ Hears(p, z, e)
      /\ NodeViewOK(p, z, s) /\ d[s] \in Edges(p) /\ R(z, d[s]) \in Nat
  BY <1>1, <1>2, Views DEF KnownEdge, EdgeCtl, Known, ViewOK
<1>4. /\ K(z2, s) = K(z, s) /\ En(z2, s) = En(z, s) /\ K(z, s) \in Nat
      /\ A(z2, e) = A(z, e) /\ A(z, e) \in Nat /\ Ca(z2, e) \in {0, 1}
      /\ z.go /\ z2.go /\ z2.pc = z.pc
  BY <1>2, <1>3 DEF CEnter, NodeViewOK, EdgeViewOK
<1>5. Edge(p, d, z2, e)
  <2>1. CASE Begins(p, z, c) /\ d[s] = d[n]
    <3>1. R(z2, d[s]) = R(z, d[s]) + 1
      BY <2>1 DEF CEnter
    <3>2. A(z, e) = R(z, d[s])
      BY <1>2, <2>1, EnterBegins
    <3>3. QED
      BY <1>2, <1>3, <1>4, <3>1, <3>2 DEF Edge
  <2>2. CASE ~ (Begins(p, z, c) /\ d[s] = d[n])
    <3>1. R(z2, d[s]) = R(z, d[s])
      BY <1>3, <2>2 DEF CEnter
    <3>2. CASE e = c
      <4>1. A(z, e) + 1 = R(z2, d[s])
        BY <1>1, <1>2, <3>2 DEF EnterKnown
      <4>2. QED
        BY <1>2, <1>3, <1>4, <3>1, <4>1 DEF Edge
    <3>3. CASE e # c
      <4>1. Ca(z2, e) = Ca(z, e)
        BY <3>3 DEF CEnter
      <4>2. QED
        BY <1>2, <1>3, <1>4, <3>1, <4>1 DEF Edge
    <3>4. QED
      BY <3>2, <3>3
  <2>3. QED
    BY <2>1, <2>2
<1>6. CASE e = Executor \/ StillAt(p, z, z2, e[1])
  <2>1. Sees(p, z2, e) <=> Sees(p, z, e)
    BY <1>6, SeesFrame DEF StillAt
  <2>2. e # Executor => En(z2, e[1]) = En(z, e[1]) /\ e[2] \in 1 .. 2
    BY <1>1 DEF CEnter, KnownEdge
  <2>3. Over(p, z2, e) <=> Over(p, z, e)
    BY <1>4, <1>6, <2>2, OverFrame DEF StillAt
  <2>4. e # Executor => Got(z2, e[1], e[2]) = Got(z, e[1], e[2])
    BY <1>6, <2>2 DEF StillAt
  <2>5. Gets1(p, z2, e)
    BY <1>2, <1>3, <1>4, <2>1, <2>4 DEF Gets1, Sees
  <2>6. Hears(p, z2, e)
    BY <1>2, <1>3, <1>4, <2>3 DEF Hears
  <2>7. QED
    BY <1>5, <2>5, <2>6 DEF EdgeCtl
<1>7. CASE ~ (e = Executor \/ StillAt(p, z, z2, e[1]))
  <2>1. e[1] \in DOMAIN p /\ e = <<e[1], e[2]>> /\ e[2] \in 1 .. Arity(p, e[1]) /\ e[2] \in 1 .. 2
    BY <1>1, <1>7 DEF KnownEdge
  <2>2. e[1] = n /\ FreshAt(p, z, z2, n) /\ p[n].op \in {"linear", "filter", "append"}
    BY <1>1, <1>7, <2>1 DEF CEnter, KnownEdge
  <2>3. ~ Sees(p, z2, e)
    BY <2>1, <2>2 DEF Sees, FreshAt, FirstPc
  <2>4. A(z, e) = 0
    <3>1. PICK i \in 1 .. 2 : e = <<n, i>> /\ i \in 1 .. Arity(p, n)
      BY <2>1, <2>2
    <3>2. Linear(p, z, n) /\ Filter(p, z, n) /\ Appends(p, z, n)
      BY <1>1 DEF EnterKnown, Known, NodeCtl
    <3>3. A(z, <<n, i>>) = 0
      BY <2>2, <3>1, <3>2 DEF Linear, Filter, Appends, FreshAt
    <3>4. QED
      BY <3>1, <3>3
  <2>5. QED
    BY <1>2, <1>4, <1>5, <2>3, <2>4 DEF EdgeCtl, Gets1, Hears
<1>8. QED
  BY <1>6, <1>7

LEMMA EnterControl ==
  ASSUME NEW p, NEW d, NEW z, NEW z2, NEW c, NEW n, Ctl(p, d, z), Good(p, z2),
         CEnter(p, d, z, z2, c, n)
  PROVE  Ctl(p, d, z2)
<1>1. EnterKnown(p, d, z, z2, c, n)
  BY EnterKnows
<1>2. IsDriver(p, d) /\ IsPlan(p) /\ Executor \in Edges(p)
  BY AllKnown
<1>3. ASSUME NEW x \in DOMAIN p PROVE NodeCtl(p, d, z2, x)
  <2>1. Pace(d, z2, x) /\ Linear(p, z2, x) /\ Busy(p, d, z2, x) /\ Asked(p, z2, x)
    BY EnterNode
  <2>2. Ended(p, d, z2, x) /\ Skips(p, d, z2, x)
    BY EnterSkip
  <2>3. Filter(p, z2, x)
    BY EnterFilter DEF Filter
  <2>4. Appends(p, z2, x)
    BY EnterAppend DEF Appends
  <2>5. QED
    BY <2>1, <2>2, <2>3, <2>4 DEF NodeCtl
<1>4. \A e \in Edges(p) : EdgeCtl(p, d, z2, e)
  BY EnterEdge
<1>5. R(z2, Executor) = A(z2, Executor) + Ca(z2, Executor)
  <2>1. /\ R(z, Executor) = A(z, Executor) + Ca(z, Executor) /\ A(z2, Executor) = A(z, Executor)
        /\ A(z, Executor) \in Nat
    BY <1>2, CtlParts, AllKnown DEF CEnter, KnownEdge, EdgeViewOK
  <2>2. CASE c = Executor
    <3>1. d[n] = Executor /\ Begins(p, z, c) /\ Ca(z, c) = 0
      BY <1>1, <2>2, DriverOf DEF EnterKnown, Begins
    <3>2. R(z2, Executor) = R(z, Executor) + 1 /\ Ca(z2, Executor) = 1
      BY <2>2, <3>1 DEF CEnter
    <3>3. QED
      BY <2>1, <2>2, <3>1, <3>2
  <2>3. CASE c # Executor
    <3>1. Ca(z2, Executor) = Ca(z, Executor)
      BY <1>2, <2>3 DEF CEnter
    <3>2. ~ Begins(p, z, c) \/ d[n] # Executor
      <4> SUFFICES ASSUME Begins(p, z, c), d[n] = Executor PROVE FALSE
        OBVIOUS
      <4>1. c[1] # 0
        BY <1>1, <1>2, <2>3, AllKnown, PlanShape DEF EnterKnown, KnownEdge
      <4>2. d[n] = c \/ d[n] = <<c[1], 2>>
        <5>1. n = Src(p, c) /\ c \in Edges(p)
          BY <1>1 DEF EnterKnown
        <5>2. p[c[1]].op \in {"append", "filter"}
          BY <2>3 DEF Begins
        <5>3. /\ p[c[1]].op = "filter" => d[n] = <<c[1], 2>>
              /\ p[c[1]].op = "append" => d[n] = c
          BY <1>2, <2>3, <5>1, DriverOf
        <5>4. QED
          BY <5>2, <5>3
      <4>3. QED
        BY <2>3, <4>1, <4>2 DEF Executor
    <3>3. R(z2, Executor) = R(z, Executor)
      BY <1>2, <3>2 DEF CEnter
    <3>4. QED
      BY <2>1, <3>1, <3>3
  <2>4. QED
    BY <2>2, <2>3
<1>6. QED
  BY <1>2, <1>3, <1>4, <1>5, CtlBy

-----------------------------------------------------------------------------
(* A call of get_next() returns.                                           *)

\* The operator of m takes note of what its call for input i has returned, b.
Takes(p, z, z2, m, i, b) ==
  /\ \A j \in 1 .. 2 : j # i => Got(z2, m, j) = Got(z, m, j)
  /\ \/ p[m].op = "append" /\ Pc(z2, m) = "copy" /\ Arg(z2, m) = i /\ Got(z2, m, i) = b
     \/ /\ p[m].op = "linear" /\ i < Arity(p, m) /\ Pc(z2, m) = Pc(z, m) /\ Arg(z2, m) = i + 1
        /\ Got(z2, m, i) = b
     \/ /\ p[m].op = "linear" /\ i = Arity(p, m) /\ Arg(z2, m) = 1 /\ Got(z2, m, i) = b
        /\ Pc(z2, m) = IF Pc(z, m) = "get" THEN "apply" ELSE "fake"
     \/ /\ p[m].op = "filter" /\ Got(z2, m, i) = b
        /\ \/ Pc(z, m) = "first_left" /\ Pc(z2, m) = "first_right" /\ Arg(z2, m) = 2
           \/ Pc(z, m) = "first_right" /\ Pc(z2, m) = "first" /\ Arg(z2, m) = 1
           \/ Pc(z, m) = "right" /\ Pc(z2, m) = "test" /\ Arg(z2, m) = 1
           \/ Pc(z, m) = "left" /\ Pc(z2, m) = "check" /\ Arg(z2, m) = 1
     \/ p[m].op = "filter" /\ Pc(z, m) = "skip_left" /\ Pc(z2, m) = "right" /\ Arg(z2, m) = 2

\* What a return does not change of a node.
KeptAt(p, z, z2, x) ==
  /\ Up(z2, x) = Up(z, x) /\ K(z2, x) = K(z, x) /\ En(z2, x) = En(z, x) /\ Ac(z2, x) = Ac(z, x)
  /\ Sk(z2, x) = Sk(z, x) /\ Fk(p, z2, x) = Fk(p, z, x) /\ El(z2, x) = El(z, x)

CReturn(p, z, z2, n, c, b) ==
  /\ TopIs(p, z, n) /\ c \in Edges(p) /\ Src(p, c) = n /\ Ca(z, c) = 1 /\ Ac(z, n) = 0
  /\ ON(z2) = ON(z) \ {n} /\ Ca(z2, c) = 0 /\ A(z2, c) = A(z, c) + 1
  /\ \A e \in Edges(p) : e # c => Ca(z2, e) = Ca(z, e) /\ A(z2, e) = A(z, e)
  /\ \A e \in Edges(p) : R(z2, e) = R(z, e)
  /\ z2.go <=> z.go
  /\ A(z, c) >= K(z, n) => En(z, n) = 1
  /\ b \in {0, 1} /\ (b = 1 <=> A(z, c) < K(z, n) /\ Sk(z, n) = 0 /\ El(z, n) = 1)
  /\ \A x \in DOMAIN p : KeptAt(p, z, z2, x) /\ (x # c[1] => SameAt(p, z, z2, x))
  /\ c # Executor => TopIs(p, z2, c[1]) /\ Takes(p, z, z2, c[1], c[2], b) /\ z2.pc = z.pc
  /\ c = Executor => ON(z2) = {} /\ (b = 0 => z2.pc # "call")

\* nullptr is the end of the data, unless it was asked to skip.
LEMMA NullIsEnd ==
  ASSUME NEW p, NEW d, NEW z, Ctl(p, d, z), NEW n \in DOMAIN p, NEW c \in Edges(p),
         Src(p, c) = n, Ca(z, c) = 1, Sk(z, n) = 0,
         A(z, c) >= K(z, n) => En(z, n) = 1,
         ~ (A(z, c) < K(z, n) /\ El(z, n) = 1)
  PROVE  En(z, n) = 1 /\ K(z, n) < A(z, c) + 1
<1>1. KnownEdge(p, d, z, c) /\ Known(p, d, z, n)
  BY AllKnown
<1>2. /\ K(z, n) \in Nat /\ A(z, c) \in Nat /\ R(z, d[n]) \in Nat /\ n \in ON(z)
      /\ Edge(p, d, z, c) /\ Pace(d, z, n) /\ Skips(p, d, z, n) /\ Busy(p, d, z, n)
      /\ En(z, n) \in {0, 1} /\ Ac(z, n) \in {0, 1} /\ IsDriverOf(p, n, d[n])
  BY <1>1 DEF KnownEdge, Known, NodeViewOK, EdgeViewOK, EdgeCtl, NodeCtl
<1>3. CASE A(z, c) >= K(z, n)
  BY <1>2, <1>3
<1>4. CASE A(z, c) < K(z, n)
  <2>1. K(z, n) = R(z, d[n]) /\ K(z, n) > 0
    BY <1>2, <1>4 DEF Edge, Pace
  <2>2. Fk(p, z, n) = 1
    <3>1. El(z, n) = 0
      BY <1>4 DEF El
    <3>2. p[n].op # "source"
      BY <1>2, <3>1 DEF Skips
    <3>3. QED
      BY <3>1, <3>2 DEF Fk
  <2>3. Skipping(p, z, d[n]) \/ Skipped(p, z, d[n])
    BY <1>2, <2>1, <2>2 DEF Skips
  <2>4. ~ Skipping(p, z, d[n])
    BY <1>2 DEF Skips
  <2>5. PICK f \in DOMAIN p : d[n] = <<f, 2>> /\ d[n] # Executor /\ p[f].op = "filter" /\ Pc(z, f) = "right"
                              /\ Ca(z, <<f, 2>>) = 0 /\ f = d[n][1]
    BY <1>2, <2>3, <2>4 DEF Skipped, IsDriverOf
  <2>6. Ca(z, <<f, 1>>) = 1
    BY <1>2, <2>5 DEF Busy
  <2>7. <<f, 1>> \in Edges(p) /\ <<f, 1>> # Executor
    BY <2>5, AllKnown, PlanArity, IsEdge
  <2>8. EdgeViewOK(p, z, <<f, 1>>) /\ Known(p, d, z, f)
    BY <2>7, AllKnown DEF KnownEdge
  <2>9. Arg(z, f) = 1
    BY <2>6, <2>7, <2>8 DEF EdgeViewOK
  <2>10. Arg(z, f) = 2
    BY <2>5, <2>8 DEF Known, NodeViewOK
  <2>11. QED
    BY <2>9, <2>10
<1>5. QED
  BY <1>2, <1>3, <1>4

\* What is known of a call that returns.
ReturnKnown(p, d, z, z2, n, c, b) ==
  /\ IsPlan(p) /\ IsDriver(p, d) /\ KnownEdge(p, d, z, c) /\ Known(p, d, z, n)
  /\ n \in DOMAIN p /\ n \in ON(z) /\ n \in Nat
  /\ A(z, c) + 1 = R(z, d[n]) /\ A(z, c) \in Nat /\ K(z, n) \in Nat
  /\ b = 1 => K(z, n) = A(z, c) + 1
  /\ b = 0 /\ Sk(z, n) = 0 => En(z, n) = 1 /\ K(z, n) < A(z, c) + 1
  /\ c # Executor => /\ Ac(z, c[1]) = 1 /\ Pc(z, c[1]) \in AskingPcs /\ Arg(z, c[1]) = c[2]
                     /\ Sk(z, n) = 1 <=> Pc(z, c[1]) \in SkippingPcs
                     /\ Up(z, c[1]) = 1 /\ En(z, c[1]) = 0
                     /\ Pc(z, c[1]) \in Pcs(p[c[1]].op)
                     /\ Pc(z, c[1]) \in {"first_left", "left", "skip_left"} => c[2] = 1
                     /\ Pc(z, c[1]) \in {"first_right", "right"} => c[2] = 2
                     /\ \A j \in 1 .. Arity(p, c[1]) : j # c[2] => Ca(z, <<c[1], j>>) = 0
  /\ \A x \in ON(z2) : x \in ON(z) /\ (c # Executor => c[1] <= x)

LEMMA ReturnKnows ==
  ASSUME NEW p, NEW d, NEW z, NEW z2, NEW n, NEW c, NEW b, Ctl(p, d, z), Good(p, z2),
         CReturn(p, z, z2, n, c, b)
  PROVE  ReturnKnown(p, d, z, z2, n, c, b)
<1>1. c \in Edges(p) /\ Src(p, c) = n /\ Ca(z, c) = 1 /\ n \in DOMAIN p /\ n \in ON(z)
  BY DEF CReturn, TopIs
<1>2. /\ IsPlan(p) /\ IsDriver(p, d) /\ KnownEdge(p, d, z, c) /\ Known(p, d, z, n)
  BY <1>1, AllKnown
<1>3. /\ K(z, n) \in Nat /\ A(z, c) \in Nat /\ R(z, d[n]) \in Nat /\ n \in Nat /\ EdgeViewOK(p, z, c)
      /\ Edge(p, d, z, c) /\ Pace(d, z, n) /\ En(z, n) \in {0, 1} /\ Ac(z, n) \in {0, 1}
  BY <1>2 DEF KnownEdge, Known, NodeViewOK, EdgeViewOK, EdgeCtl, NodeCtl
<1>4. A(z, c) + 1 = R(z, d[n])
  BY <1>1, <1>3 DEF Edge
<1>5. b = 1 => K(z, n) = A(z, c) + 1
  BY <1>3, <1>4 DEF CReturn, Pace
<1>6. b = 0 /\ Sk(z, n) = 0 => En(z, n) = 1 /\ K(z, n) < A(z, c) + 1
  BY <1>1, NullIsEnd DEF CReturn
<1>7. c # Executor => /\ Ac(z, c[1]) = 1 /\ Pc(z, c[1]) \in AskingPcs /\ Arg(z, c[1]) = c[2]
                      /\ Sk(z, n) = 1 <=> Pc(z, c[1]) \in SkippingPcs
                      /\ Up(z, c[1]) = 1 /\ En(z, c[1]) = 0
                      /\ Pc(z, c[1]) \in Pcs(p[c[1]].op)
                      /\ Pc(z, c[1]) \in {"first_left", "left", "skip_left"} => c[2] = 1
                      /\ Pc(z, c[1]) \in {"first_right", "right"} => c[2] = 2
  <2> HAVE c # Executor
  <2>1. /\ Ac(z, c[1]) = 1 /\ Pc(z, c[1]) \in AskingPcs /\ Arg(z, c[1]) = c[2]
        /\ Sk(z, n) = 1 <=> Pc(z, c[1]) \in SkippingPcs
    BY <1>1, <1>3 DEF EdgeViewOK
  <2>2. NodeViewOK(p, z, c[1])
    BY <1>2 DEF KnownEdge, Known
  <2>3. QED
    BY <2>1, <2>2 DEF NodeViewOK
<1>8. c # Executor => \A j \in 1 .. Arity(p, c[1]) : j # c[2] => Ca(z, <<c[1], j>>) = 0
  <2> SUFFICES ASSUME c # Executor, NEW j \in 1 .. Arity(p, c[1]), j # c[2] PROVE Ca(z, <<c[1], j>>) = 0
    OBVIOUS
  <2>1. PICK e : e = <<c[1], j>>
    OBVIOUS
  <2>2. c[1] \in DOMAIN p
    BY <1>2 DEF KnownEdge
  <2>3. e \in Edges(p) /\ e # Executor /\ e[1] = c[1] /\ e[2] = j
    BY <1>2, <2>1, <2>2, IsEdge
  <2>4. EdgeViewOK(p, z, e)
    BY <2>3, AllKnown DEF KnownEdge
  <2>5. Ca(z, e) = 0
    BY <1>7, <2>3, <2>4 DEF EdgeViewOK
  <2>6. QED
    BY <2>1, <2>5
<1>9. \A x \in ON(z2) : x \in ON(z) /\ (c # Executor => c[1] <= x)
  BY DEF CReturn, TopIs
<1>10. QED
  BY <1>1, <1>2, <1>3, <1>4, <1>5, <1>6, <1>7, <1>8, <1>9 DEF ReturnKnown

\* The histories of the inputs of node x.
LEMMA ReturnInputs ==
  ASSUME NEW p, NEW d, NEW z, NEW z2, NEW n, NEW c, NEW b, Ctl(p, d, z), Good(p, z2),
         CReturn(p, z, z2, n, c, b), NEW x \in DOMAIN p, NEW i \in 1 .. Arity(p, x)
  PROVE  /\ <<x, i>> \in Edges(p) /\ A(z, <<x, i>>) \in Nat /\ R(z2, <<x, i>>) = R(z, <<x, i>>)
         /\ c # <<x, i>> => A(z2, <<x, i>>) = A(z, <<x, i>>) /\ Ca(z2, <<x, i>>) = Ca(z, <<x, i>>)
         /\ c = <<x, i>> => /\ A(z2, <<x, i>>) = A(z, <<x, i>>) + 1
                            /\ Ca(z, <<x, i>>) = 1 /\ Ca(z2, <<x, i>>) = 0
<1>1. PICK e : e = <<x, i>>
  OBVIOUS
<1>2. e \in Edges(p)
  BY <1>1, AllKnown, IsEdge
<1>3. A(z, e) \in Nat
  BY <1>2, AllKnown DEF KnownEdge, EdgeViewOK
<1>4. R(z2, e) = R(z, e)
  BY <1>2 DEF CReturn
<1>5. c # e => A(z2, e) = A(z, e) /\ Ca(z2, e) = Ca(z, e)
  BY <1>2 DEF CReturn
<1>6. c = e => A(z2, e) = A(z, e) + 1 /\ Ca(z, e) = 1 /\ Ca(z2, e) = 0
  BY DEF CReturn
<1>7. QED
  BY <1>1, <1>2, <1>3, <1>4, <1>5, <1>6

LEMMA ReturnLinear ==
  ASSUME NEW p, NEW d, NEW z, NEW z2, NEW n, NEW c, NEW b, Ctl(p, d, z), Good(p, z2),
         CReturn(p, z, z2, n, c, b), NEW x \in DOMAIN p, p[x].op = "linear"
  PROVE  Linear(p, z2, x)
<1>1. ReturnKnown(p, d, z, z2, n, c, b) /\ Linear(p, z, x) /\ IsPlan(p)
  BY ReturnKnows, AllKnown DEF Known, NodeCtl
<1>2. KeptAt(p, z, z2, x) /\ (x # c[1] => SameAt(p, z, z2, x)) /\ (z2.go <=> z.go) /\ Arity(p, x) \in Nat /\ x # 0
  BY <1>1, PlanShape DEF CReturn
<1>3. CASE c = Executor \/ x # c[1]
  <2>1. x # c[1]
    BY <1>2, <1>3 DEF Executor
  <2>2. \A i \in 1 .. Arity(p, x) : A(z2, <<x, i>>) = A(z, <<x, i>>)
    BY <2>1, ReturnInputs
  <2>3. QED
    BY <1>1, <1>2, <2>1, <2>2 DEF Linear, KeptAt, SameAt
<1>4. CASE c # Executor /\ x = c[1]
  <2>1. PICK i \in 1 .. 2 : c = <<x, i>> /\ c[2] = i /\ i \in 1 .. Arity(p, x)
    BY <1>1, <1>4 DEF ReturnKnown, KnownEdge
  <2>2. /\ Ac(z, x) = 1 /\ Pc(z, x) \in {"get", "drain"} /\ Arg(z, x) = i /\ En(z, x) = 0
    BY <1>1, <1>4, <2>1 DEF ReturnKnown, Pcs, AskingPcs
  <2>3. /\ \A j \in 1 .. Arity(p, x) : A(z, <<x, j>>) = IF j < i THEN K(z, x) + 1 ELSE K(z, x)
        /\ Sk(z, x) = 1 <=> Pc(z, x) \in {"drain", "fake"}
    BY <1>1, <2>2 DEF Linear
  <2>4. ASSUME NEW j \in 1 .. Arity(p, x)
        PROVE  A(z2, <<x, j>>) = IF j <= i THEN K(z, x) + 1 ELSE K(z, x)
    <3>1. CASE j = i
      BY <2>1, <2>3, <3>1, ReturnInputs
    <3>2. CASE j # i
      <4>1. c # <<x, j>>
        BY <2>1, <3>2
      <4>2. A(z2, <<x, j>>) = A(z, <<x, j>>)
        BY <4>1, ReturnInputs
      <4>3. QED
        BY <1>2, <2>3, <3>2, <4>2
    <3>3. QED
      BY <3>1, <3>2
  <2>5. Takes(p, z, z2, x, i, b)
    BY <1>4, <2>1 DEF CReturn
  <2>6. /\ Ac(z2, x) = 1 /\ K(z2, x) = K(z, x) /\ Sk(z2, x) = Sk(z, x) /\ En(z2, x) = 0
    BY <1>2, <2>2 DEF KeptAt
  <2>7. /\ \A j \in 1 .. Arity(p, x) : (Pc(z2, x) \in {"apply", "fake"} \/ j < Arg(z2, x)) <=> j <= i
        /\ Pc(z2, x) \in {"drain", "fake"} <=> Pc(z, x) \in {"drain", "fake"}
    BY <1>2, <2>2, <2>5 DEF Takes
  <2>8. QED
    BY <2>3, <2>4, <2>6, <2>7 DEF Linear
<1>5. QED
  BY <1>3, <1>4

LEMMA ReturnFilter ==
  ASSUME NEW p, NEW d, NEW z, NEW z2, NEW n, NEW c, NEW b, Ctl(p, d, z), Good(p, z2),
         CReturn(p, z, z2, n, c, b), NEW x \in DOMAIN p, p[x].op = "filter"
  PROVE  Filter(p, z2, x)
<1>1. ReturnKnown(p, d, z, z2, n, c, b) /\ Filter(p, z, x) /\ IsPlan(p)
  BY ReturnKnows, AllKnown DEF Known, NodeCtl
<1>2. KeptAt(p, z, z2, x) /\ (x # c[1] => SameAt(p, z, z2, x)) /\ Arity(p, x) = 2 /\ x # 0
  BY <1>1, PlanShape, PlanArity DEF CReturn
<1>3. \A i \in 1 .. 2 :
         /\ A(z, <<x, i>>) \in Nat /\ R(z2, <<x, i>>) = R(z, <<x, i>>)
         /\ c # <<x, i>> => A(z2, <<x, i>>) = A(z, <<x, i>>) /\ Ca(z2, <<x, i>>) = Ca(z, <<x, i>>)
         /\ c = <<x, i>> => /\ A(z2, <<x, i>>) = A(z, <<x, i>>) + 1
                            /\ Ca(z, <<x, i>>) = 1 /\ Ca(z2, <<x, i>>) = 0
  BY <1>2, ReturnInputs
<1>4. CASE c = Executor \/ x # c[1]
  <2>1. x # c[1]
    BY <1>2, <1>4 DEF Executor
  <2>2. c # <<x, 1>> /\ c # <<x, 2>>
    BY <2>1
  <2>3. /\ A(z2, <<x, 1>>) = A(z, <<x, 1>>) /\ A(z2, <<x, 2>>) = A(z, <<x, 2>>)
        /\ R(z2, <<x, 2>>) = R(z, <<x, 2>>)
        /\ Ca(z2, <<x, 1>>) = Ca(z, <<x, 1>>) /\ Ca(z2, <<x, 2>>) = Ca(z, <<x, 2>>)
    BY <1>3, <2>2
  <2>4. QED
    BY <1>1, <1>2, <2>1, <2>3 DEF Filter, SameAt
<1>5. CASE c # Executor /\ x = c[1]
  <2>1. PICK i \in 1 .. 2 : c = <<x, i>> /\ c[2] = i
    BY <1>1, <1>5 DEF ReturnKnown, KnownEdge
  <2>2. /\ Up(z, x) = 1 /\ Pc(z, x) \in AskingPcs
        /\ Pc(z, x) \in {"first_left", "left", "skip_left"} => i = 1
        /\ Pc(z, x) \in {"first_right", "right"} => i = 2
        /\ \A j \in 1 .. 2 : j # i => Ca(z, <<x, j>>) = 0
    BY <1>1, <1>2, <1>5, <2>1 DEF ReturnKnown
  <2>3. PICK u \in Nat, v \in Nat, w \in {R(z, <<x, 2>>)} : u = A(z, <<x, 1>>) /\ v = A(z, <<x, 2>>)
    BY <1>3
  <2>4. Takes(p, z, z2, x, i, b) /\ Up(z2, x) = 1 /\ R(z2, <<x, 2>>) = w
    BY <1>2, <1>3, <1>5, <2>1, <2>2, <2>3 DEF CReturn, KeptAt
  <2>5. CASE i = 1
    <3>1. A(z2, <<x, 1>>) = u + 1 /\ Ca(z, <<x, 1>>) = 1 /\ Ca(z2, <<x, 1>>) = 0
      BY <1>3, <2>1, <2>3, <2>5
    <3>2. c # <<x, 2>>
      BY <2>1, <2>5
    <3>3. A(z2, <<x, 2>>) = v /\ Ca(z2, <<x, 2>>) = 0 /\ Ca(z, <<x, 2>>) = 0
      BY <1>3, <2>2, <2>3, <2>5, <3>2
    <3>4. FilterAt(Pc(z, x), u, v, w, 1, 0)
      BY <1>1, <2>2, <2>3, <3>1, <3>3 DEF Filter
    <3>5. FilterAt(Pc(z2, x), u + 1, v, w, 0, 0) /\ Pc(z2, x) \notin {"rows", "skip_left"}
      BY <2>2, <2>4, <2>5, <3>4 DEF FilterAt, Takes
    <3>6. QED
      BY <2>4, <3>1, <3>3, <3>5 DEF Filter
  <2>6. CASE i = 2
    <3>1. A(z2, <<x, 2>>) = v + 1 /\ Ca(z, <<x, 2>>) = 1 /\ Ca(z2, <<x, 2>>) = 0
      BY <1>3, <2>1, <2>3, <2>6
    <3>2. c # <<x, 1>>
      BY <2>1, <2>6
    <3>3. A(z2, <<x, 1>>) = u /\ Ca(z2, <<x, 1>>) = 0 /\ Ca(z, <<x, 1>>) = 0
      BY <1>3, <2>2, <2>3, <2>6, <3>2
    <3>4. FilterAt(Pc(z, x), u, v, w, 0, 1)
      BY <1>1, <2>2, <2>3, <3>1, <3>3 DEF Filter
    <3>5. FilterAt(Pc(z2, x), u, v + 1, w, 0, 0) /\ Pc(z2, x) \notin {"rows", "skip_left"}
      BY <2>2, <2>4, <2>6, <3>4 DEF FilterAt, Takes
    <3>6. QED
      BY <2>4, <3>1, <3>3, <3>5 DEF Filter
  <2>7. QED
    BY <2>5, <2>6
<1>6. QED
  BY <1>4, <1>5

LEMMA ReturnAppend ==
  ASSUME NEW p, NEW d, NEW z, NEW z2, NEW n, NEW c, NEW b, Ctl(p, d, z), Good(p, z2),
         CReturn(p, z, z2, n, c, b), NEW x \in DOMAIN p, p[x].op = "append"
  PROVE  Appends(p, z2, x)
<1>1. ReturnKnown(p, d, z, z2, n, c, b) /\ Appends(p, z, x) /\ IsPlan(p)
  BY ReturnKnows, AllKnown DEF Known, NodeCtl
<1>2. KeptAt(p, z, z2, x) /\ (x # c[1] => SameAt(p, z, z2, x)) /\ Arity(p, x) = 2 /\ x # 0
  BY <1>1, PlanShape, PlanArity DEF CReturn
<1>3. \A i \in 1 .. 2 :
         /\ A(z, <<x, i>>) \in Nat /\ R(z2, <<x, i>>) = R(z, <<x, i>>)
         /\ c # <<x, i>> => A(z2, <<x, i>>) = A(z, <<x, i>>) /\ Ca(z2, <<x, i>>) = Ca(z, <<x, i>>)
         /\ c = <<x, i>> => /\ A(z2, <<x, i>>) = A(z, <<x, i>>) + 1
                            /\ Ca(z, <<x, i>>) = 1 /\ Ca(z2, <<x, i>>) = 0
  BY <1>2, ReturnInputs
<1>4. ASSUME NEW i \in 1 .. 2 PROVE R(z2, <<x, i>>) = A(z2, <<x, i>>) + Ca(z2, <<x, i>>)
  <2>1. R(z, <<x, i>>) = A(z, <<x, i>>) + Ca(z, <<x, i>>)
    BY <1>1 DEF Appends
  <2>2. CASE c = <<x, i>>
    BY <1>3, <2>1, <2>2
  <2>3. CASE c # <<x, i>>
    BY <1>3, <2>1, <2>3
  <2>4. QED
    BY <2>2, <2>3
<1>5. CASE c = Executor \/ x # c[1]
  <2>1. x # c[1]
    BY <1>2, <1>5 DEF Executor
  <2>2. c # <<x, 1>> /\ c # <<x, 2>>
    BY <2>1
  <2>3. A(z2, <<x, 1>>) = A(z, <<x, 1>>) /\ A(z2, <<x, 2>>) = A(z, <<x, 2>>)
    BY <1>3, <2>2
  <2>4. QED
    BY <1>1, <1>2, <1>4, <2>1, <2>3 DEF Appends, SameAt
<1>6. CASE c # Executor /\ x = c[1]
  <2>1. PICK i \in 1 .. 2 : c = <<x, i>> /\ c[2] = i
    BY <1>1, <1>6 DEF ReturnKnown, KnownEdge
  <2>2. Up(z, x) = 1 /\ Arg(z, x) = i
    BY <1>1, <1>6, <2>1 DEF ReturnKnown
  <2>3. Pc(z2, x) = "copy" /\ Arg(z2, x) = i /\ Up(z2, x) = 1
    BY <1>2, <1>6, <2>1, <2>2 DEF CReturn, Takes, KeptAt
  <2>4. i = 1 => A(z2, <<x, 2>>) = 0
    <3> HAVE i = 1
    <3>1. c # <<x, 2>>
      BY <2>1
    <3>2. A(z2, <<x, 2>>) = A(z, <<x, 2>>)
      BY <1>3, <3>1
    <3>3. QED
      BY <1>1, <2>2, <3>2 DEF Appends
  <2>5. QED
    BY <1>4, <2>3, <2>4 DEF Appends
<1>7. QED
  BY <1>5, <1>6


LEMMA ReturnNode ==
  ASSUME NEW p, NEW d, NEW z, NEW z2, NEW n, NEW c, NEW b, Ctl(p, d, z), Good(p, z2),
         CReturn(p, z, z2, n, c, b), NEW x \in DOMAIN p
  PROVE  Pace(d, z2, x) /\ Busy(p, d, z2, x) /\ Asked(p, z2, x)
<1>1. ReturnKnown(p, d, z, z2, n, c, b) /\ Known(p, d, z, x)
  BY ReturnKnows, AllKnown
<1>2. /\ d[x] \in Edges(p) /\ IsDriverOf(p, x, d[x]) /\ x \in Nat
      /\ Pace(d, z, x) /\ Busy(p, d, z, x) /\ Asked(p, z, x)
  BY <1>1 DEF Known, NodeCtl
<1>3. \A y \in DOMAIN p : KeptAt(p, z, z2, y)
  BY DEF CReturn
<1>4. R(z2, d[x]) = R(z, d[x])
  BY <1>2 DEF CReturn
<1>5. Pace(d, z2, x)
  BY <1>2, <1>3, <1>4 DEF Pace, KeptAt
<1>6. Asked(p, z2, x)
  <2>1. \A e \in Edges(p) : e # Executor => e[1] \in DOMAIN p
    BY AllKnown DEF KnownEdge
  <2>2. \A e \in Edges(p) : e # Executor => Up(z2, e[1]) = Up(z, e[1])
    BY <1>3, <2>1 DEF KeptAt
  <2>3. QED
    BY <1>2, <1>3, <2>2 DEF Asked, KeptAt
<1>7. Busy(p, d, z2, x)
  <2> SUFFICES ASSUME x \in ON(z2), d[x] # Executor
               PROVE  /\ Ac(z2, d[x][1]) = 1
                      /\ p[d[x][1]].op = "append" => Ca(z2, d[x]) = 1
                      /\ p[d[x][1]].op = "filter" => Ca(z2, <<d[x][1], 1>>) = 1 \/ Ca(z2, <<d[x][1], 2>>) = 1
    BY DEF Busy
  <2>1. x \in ON(z) /\ c # Executor /\ c[1] <= x
    BY <1>1 DEF ReturnKnown, CReturn
  <2>2. c[1] \in Nat
    BY <1>1, <2>1 DEF ReturnKnown, KnownEdge, Known
  <2>3. d[x][1] \in DOMAIN p /\ x < d[x][1] /\ d[x][1] \in Nat
    BY <1>1, <1>2, PlanShape DEF IsDriverOf, ReturnKnown
  <2>4. d[x][1] # c[1]
    BY <1>2, <2>1, <2>2, <2>3
  <2>5. /\ Ac(z, d[x][1]) = 1
        /\ p[d[x][1]].op = "append" => Ca(z, d[x]) = 1
        /\ p[d[x][1]].op = "filter" => Ca(z, <<d[x][1], 1>>) = 1 \/ Ca(z, <<d[x][1], 2>>) = 1
    BY <1>2, <2>1 DEF Busy
  <2>6. Ac(z2, d[x][1]) = 1
    BY <1>3, <2>3, <2>5 DEF KeptAt
  <2>7. Ca(z2, d[x]) = Ca(z, d[x])
    BY <1>2, <2>4 DEF CReturn
  <2>8. p[d[x][1]].op = "filter" =>
          \A i \in 1 .. 2 : Ca(z2, <<d[x][1], i>>) = Ca(z, <<d[x][1], i>>)
    <3> SUFFICES ASSUME p[d[x][1]].op = "filter", NEW i \in 1 .. 2
                 PROVE  Ca(z2, <<d[x][1], i>>) = Ca(z, <<d[x][1], i>>)
      OBVIOUS
    <3>1. i \in 1 .. Arity(p, d[x][1])
      BY <1>1, <2>3, PlanArity DEF ReturnKnown
    <3>2. c # <<d[x][1], i>>
      BY <2>4
    <3>3. QED
      BY <2>3, <3>1, <3>2, ReturnInputs
  <2>9. QED
    BY <2>5, <2>6, <2>7, <2>8
<1>8. QED
  BY <1>5, <1>6, <1>7

LEMMA ReturnSkip ==
  ASSUME NEW p, NEW d, NEW z, NEW z2, NEW n, NEW c, NEW b, Ctl(p, d, z), Good(p, z2),
         CReturn(p, z, z2, n, c, b), NEW x \in DOMAIN p
  PROVE  Ended(p, d, z2, x) /\ Skips(p, d, z2, x)
<1>1. ReturnKnown(p, d, z, z2, n, c, b) /\ Known(p, d, z, x)
  BY ReturnKnows, AllKnown
<1>2. /\ d[x] \in Edges(p) /\ IsDriverOf(p, x, d[x]) /\ x \in Nat
      /\ Ended(p, d, z, x) /\ Skips(p, d, z, x)
  BY <1>1 DEF Known, NodeCtl
<1>3. \A y \in DOMAIN p : KeptAt(p, z, z2, y) /\ (y # c[1] => SameAt(p, z, z2, y))
  BY DEF CReturn
<1>4. R(z2, d[x]) = R(z, d[x]) /\ (z2.go <=> z.go)
  BY <1>2 DEF CReturn
<1>5. c = Executor => c[1] = 0
  BY DEF Executor
<1>6. d[x] # Executor => d[x][1] \in DOMAIN p /\ d[x][1] \in Nat \ {0} /\ x < d[x][1]
  BY <1>1, <1>2, PlanShape DEF IsDriverOf, ReturnKnown
<1>7. CASE d[x] = Executor \/ d[x][1] # c[1]
  <2>1. d[x] # Executor => SameAt(p, z, z2, d[x][1]) /\ Ca(z2, d[x]) = Ca(z, d[x])
    BY <1>2, <1>3, <1>6, <1>7 DEF CReturn
  <2>2. /\ Skipping(p, z2, d[x]) <=> Skipping(p, z, d[x])
        /\ Skipped(p, z2, d[x]) <=> Skipped(p, z, d[x])
    BY <2>1, SkipFrame DEF SameAt
  <2>3. \A e \in Edges(p) : (Src(p, e) = x /\ (Ca(z, e) = 1 \/ A(z, e) = R(z, d[x]))) =>
                            (Ca(z2, e) = 1 \/ A(z2, e) = R(z, d[x]))
    BY <1>1 DEF CReturn, ReturnKnown
  <2>4. Ended(p, d, z2, x)
    BY <1>2, <1>3, <1>4, <2>2, <2>3 DEF Ended, KeptAt
  <2>5. x \in ON(z2) => x \in ON(z)
    BY <1>1 DEF ReturnKnown
  <2>6. Skips(p, d, z2, x)
    BY <1>2, <1>3, <1>4, <2>2, <2>5 DEF Skips, KeptAt
  <2>7. QED
    BY <2>4, <2>6
<1>8. CASE d[x] # Executor /\ d[x][1] = c[1]
  <2>1. c # Executor
    BY <1>5, <1>6, <1>8
  <2>2. PICK m \in DOMAIN p, i \in 1 .. 2 : c = <<m, i>> /\ c[1] = m /\ c[2] = i
    BY <1>1, <2>1 DEF ReturnKnown, KnownEdge
  <2>3. x \notin ON(z2)
    <3>1. ~ (m <= x)
      BY <1>2, <1>6, <1>8, <2>2
    <3>2. QED
      BY <1>1, <2>1, <2>2, <3>1 DEF ReturnKnown
  <2>4. Takes(p, z, z2, m, i, b) /\ Up(z, m) = 1 /\ Up(z2, m) = 1 /\ Pc(z, m) \in AskingPcs /\ Arg(z, m) = i
    BY <1>1, <1>3, <2>1, <2>2 DEF CReturn, ReturnKnown, KeptAt
  <2>5. ~ Skipping(p, z2, d[x])
    BY <1>8, <2>2, <2>4 DEF Skipping, Takes
  <2>6. Skipping(p, z, d[x]) => Skipped(p, z2, d[x])
    <3> HAVE Skipping(p, z, d[x])
    <3>1. p[m].op = "filter" /\ Pc(z, m) = "skip_left" /\ d[x] = <<m, 2>>
      BY <1>2, <1>8, <2>2 DEF Skipping, IsDriverOf
    <3>2. i = 1 /\ Pc(z2, m) = "right"
      BY <1>1, <2>1, <2>2, <2>4, <3>1 DEF ReturnKnown, Takes
    <3>3. d[x] # c
      BY <2>2, <3>1, <3>2
    <3>4. Ca(z, <<m, 2>>) = 0
      <4>1. 2 \in 1 .. Arity(p, m)
        BY <1>1, <3>1, PlanArity DEF ReturnKnown
      <4>2. QED
        BY <1>1, <2>1, <2>2, <3>2, <4>1 DEF ReturnKnown
    <3>5. Ca(z2, d[x]) = 0
      BY <1>2, <3>1, <3>3, <3>4 DEF CReturn
    <3>6. QED
      BY <1>8, <2>2, <2>4, <3>1, <3>2, <3>5 DEF Skipped
  <2>7. ~ Skipped(p, z, d[x])
    <3> SUFFICES ASSUME Skipped(p, z, d[x]) PROVE FALSE
      OBVIOUS
    <3>1. Pc(z, m) = "right" /\ d[x] = <<m, 2>> /\ Ca(z, d[x]) = 0
      BY <1>2, <1>8, <2>2 DEF Skipped, IsDriverOf
    <3>2. i = 2
      BY <1>1, <2>1, <2>2, <3>1 DEF ReturnKnown
    <3>3. QED
      BY <2>2, <3>1, <3>2 DEF CReturn
  <2>8. \A e \in Edges(p) : (Src(p, e) = x /\ (Ca(z, e) = 1 \/ A(z, e) = R(z, d[x]))) =>
                            (Ca(z2, e) = 1 \/ A(z2, e) = R(z, d[x]))
    BY <1>1 DEF CReturn, ReturnKnown
  <2>9. Ended(p, d, z2, x)
    BY <1>2, <1>3, <1>4, <2>5, <2>8 DEF Ended, KeptAt
  <2>10. Skips(p, d, z2, x)
    BY <1>2, <1>3, <1>4, <2>3, <2>6, <2>7 DEF Skips, KeptAt
  <2>11. QED
    BY <2>9, <2>10
<1>9. QED
  BY <1>7, <1>8

LEMMA ReturnEdge ==
  ASSUME NEW p, NEW d, NEW z, NEW z2, NEW n, NEW c, NEW b, Ctl(p, d, z), Good(p, z2),
         CReturn(p, z, z2, n, c, b), NEW e \in Edges(p)
  PROVE  EdgeCtl(p, d, z2, e)
<1>1. ReturnKnown(p, d, z, z2, n, c, b) /\ KnownEdge(p, d, z, e)
  BY ReturnKnows, AllKnown
<1>2. PICK s \in DOMAIN p : s = Src(p, e)
  BY <1>1 DEF KnownEdge
<1>3. /\ Edge(p, d, z, e) /\ Gets1(p, z, e) /\ Hears(p, z, e) /\ A(z, e) \in Nat
      /\ K(z, s) \in Nat /\ d[s] \in Edges(p) /\ R(z, d[s]) \in Nat /\ Ca(z, e) \in {0, 1}
      /\ Ended(p, d, z, s)
  BY <1>1, <1>2 DEF KnownEdge, EdgeCtl, Known, EdgeViewOK, NodeViewOK, NodeCtl
<1>4. /\ R(z2, d[s]) = R(z, d[s]) /\ (z2.go <=> z.go)
      /\ \A y \in DOMAIN p : KeptAt(p, z, z2, y) /\ (y # c[1] => SameAt(p, z, z2, y))
  BY <1>3 DEF CReturn
<1>5. K(z2, s) = K(z, s) /\ En(z2, s) = En(z, s)
  BY <1>4 DEF KeptAt
<1>6. Edge(p, d, z2, e)
  <2>1. CASE e = c
    <3>1. A(z2, e) = A(z, e) + 1 /\ Ca(z2, e) = 0 /\ s = n /\ A(z, e) + 1 = R(z, d[s])
          /\ (A(z, e) >= K(z, s) => En(z, s) = 1)
      BY <1>1, <1>2, <2>1 DEF CReturn, ReturnKnown
    <3>2. QED
      BY <1>2, <1>3, <1>4, <1>5, <3>1 DEF Edge
  <2>2. CASE e # c
    <3>1. A(z2, e) = A(z, e) /\ Ca(z2, e) = Ca(z, e)
      BY <2>2 DEF CReturn
    <3>2. QED
      BY <1>2, <1>3, <1>4, <1>5, <3>1 DEF Edge
  <2>3. QED
    BY <2>1, <2>2
<1>7. c = Executor => c[1] = 0
  BY DEF Executor
<1>8. e # Executor => e[1] \in DOMAIN p /\ e[1] # 0 /\ e = <<e[1], e[2]>> /\ e[2] \in 1 .. 2
  BY <1>1, PlanShape DEF KnownEdge, ReturnKnown
<1>9. CASE e # c /\ (e = Executor \/ e[1] # c[1])
  <2>1. e # Executor => SameAt(p, z, z2, e[1]) /\ Ac(z2, e[1]) = Ac(z, e[1])
    BY <1>4, <1>8, <1>9 DEF KeptAt
  <2>2. e = Executor => z2.pc = z.pc
    BY <1>9 DEF CReturn
  <2>3. Sees(p, z2, e) <=> Sees(p, z, e)
    BY <2>1, SeesFrame DEF SameAt
  <2>4. Over(p, z2, e) <=> Over(p, z, e)
    BY <2>1, <2>2, <2>3 DEF Over, SameAt
  <2>5. A(z2, e) = A(z, e)
    BY <1>9 DEF CReturn
  <2>6. e # Executor => Got(z2, e[1], e[2]) = Got(z, e[1], e[2])
    BY <1>8, <2>1 DEF SameAt
  <2>7. Gets1(p, z2, e)
    BY <1>2, <1>3, <1>5, <2>3, <2>5, <2>6 DEF Gets1, Sees
  <2>8. Hears(p, z2, e)
    BY <1>2, <1>3, <1>4, <1>5, <2>4, <2>5 DEF Hears
  <2>9. QED
    BY <1>6, <2>7, <2>8 DEF EdgeCtl
<1>10. CASE c # Executor /\ e # c /\ e # Executor /\ e[1] = c[1]
  <2>1. PICK m \in DOMAIN p, i \in 1 .. 2, j \in 1 .. 2 :
          /\ c = <<m, i>> /\ c[1] = m /\ c[2] = i
          /\ e = <<m, j>> /\ e[1] = m /\ e[2] = j
    BY <1>1, <1>8, <1>10 DEF ReturnKnown, KnownEdge
  <2>2. j # i
    BY <1>10, <2>1
  <2>3. /\ Takes(p, z, z2, m, i, b) /\ Ac(z, m) = 1 /\ Ac(z2, m) = 1 /\ Up(z, m) = 1 /\ Up(z2, m) = 1
        /\ Pc(z, m) \in AskingPcs /\ Arg(z, m) = i /\ En(z, m) = 0 /\ Pc(z, m) \in Pcs(p[m].op)
        /\ Pc(z, m) \in {"first_left", "left", "skip_left"} => i = 1
        /\ Pc(z, m) \in {"first_right", "right"} => i = 2
        /\ Got(z2, m, j) = Got(z, m, j)
    BY <1>1, <1>4, <1>10, <2>1, <2>2 DEF CReturn, ReturnKnown, KeptAt, Takes
  <2>4. p[m].op \in {"linear", "filter", "append"} /\ j \in 1 .. Arity(p, m) /\ Arity(p, m) \in Nat
    BY <1>1, <1>10, <2>1, PlanShape DEF KnownEdge, ReturnKnown
  <2>5. Sees(p, z2, e) => Sees(p, z, e)
    <3>1. CASE p[m].op = "linear"
      <4>1. Pc(z, m) \in {"get", "drain"}
        BY <2>3, <3>1 DEF Pcs, AskingPcs
      <4>2. QED
        BY <1>10, <2>1, <2>2, <2>3, <2>4, <3>1, <4>1 DEF Sees, Takes
    <3>2. CASE p[m].op = "filter"
      BY <1>10, <2>1, <2>2, <2>3, <3>2 DEF Sees, Takes
    <3>3. CASE p[m].op = "append"
      BY <1>10, <2>1, <2>2, <2>3, <3>3 DEF Sees, Takes
    <3>4. QED
      BY <2>4, <3>1, <3>2, <3>3
  <2>6. A(z2, e) = A(z, e)
    BY <1>10 DEF CReturn
  <2>7. Gets1(p, z2, e)
    BY <1>2, <1>3, <1>5, <2>1, <2>3, <2>5, <2>6 DEF Gets1
  <2>8. Hears(p, z2, e)
    <3> SUFFICES ASSUME p[s].op = "linear", En(z, s) = 1, z.go, A(z, e) = K(z, s) + 1 PROVE Over(p, z2, e)
      BY <1>2, <1>4, <1>5, <2>6 DEF Hears
    <3>1. Over(p, z, e)
      BY <1>2, <1>3 DEF Hears
    <3>2. CASE p[m].op = "linear"
      <4>1. Pc(z, m) \in {"get", "drain"}
        BY <2>3, <3>2 DEF Pcs, AskingPcs
      <4>2. Pc(z, m) = "get" /\ j < i
        BY <1>10, <2>1, <2>3, <3>1, <3>2, <4>1 DEF Over, Sees
      <4>3. Sees(p, z2, e)
        BY <1>10, <2>1, <2>3, <3>2, <4>2 DEF Sees, Takes
      <4>4. QED
        BY <1>10, <4>3 DEF Over
    <3>3. CASE p[m].op = "filter"
      <4>1. ~ Skipping(p, z, d[s])
        BY <1>3 DEF Ended
      <4>2. d[s] = <<m, 2>>
        BY <1>1, <1>2, <1>10, <2>1, <3>3, DriverOf DEF ReturnKnown
      <4>3. <<m, 2>> # Executor /\ m = <<m, 2>>[1]
        BY <1>8, <1>10, <2>1 DEF Executor
      <4>4. Pc(z, m) # "skip_left"
        BY <2>3, <3>3, <4>1, <4>2, <4>3 DEF Skipping
      <4>5. QED
        BY <1>10, <2>1, <2>2, <2>3, <3>1, <3>3, <4>4 DEF Over, Sees, Takes
    <3>4. CASE p[m].op = "append"
      <4>1. Pc(z, m) = "get"
        BY <2>3, <3>4 DEF Pcs, AskingPcs
      <4>2. i > j
        BY <1>10, <2>1, <2>3, <3>1, <3>4, <4>1 DEF Over, Sees
      <4>3. Arg(z2, m) = i
        BY <2>3, <3>4 DEF Takes
      <4>4. QED
        BY <1>10, <2>1, <3>4, <4>2, <4>3 DEF Over
    <3>5. QED
      BY <2>4, <3>2, <3>3, <3>4
  <2>9. QED
    BY <1>6, <2>7, <2>8 DEF EdgeCtl
<1>11. CASE e = c /\ c # Executor
  <2>1. PICK m \in DOMAIN p, i \in 1 .. 2 : c = <<m, i>> /\ c[1] = m /\ c[2] = i
    BY <1>1, <1>11 DEF ReturnKnown, KnownEdge
  <2>2. /\ Takes(p, z, z2, m, i, b) /\ Ac(z, m) = 1 /\ Ac(z2, m) = 1 /\ Up(z, m) = 1 /\ Up(z2, m) = 1
        /\ Pc(z, m) \in AskingPcs /\ Arg(z, m) = i /\ En(z, m) = 0 /\ Pc(z, m) \in Pcs(p[m].op)
        /\ Pc(z, m) \in {"first_left", "left", "skip_left"} => i = 1
        /\ Pc(z, m) \in {"first_right", "right"} => i = 2
        /\ s = n /\ (Sk(z, n) = 1 <=> Pc(z, m) \in SkippingPcs)
    BY <1>1, <1>2, <1>4, <1>11, <2>1 DEF CReturn, ReturnKnown, KeptAt
  <2>3. p[m].op \in {"linear", "filter", "append"} /\ Arity(p, m) \in Nat
    BY <1>1, <1>11, <2>1, PlanShape DEF KnownEdge, ReturnKnown
  <2>4. Sees(p, z2, c) <=> Pc(z, m) \notin SkippingPcs
    <3>1. CASE p[m].op = "linear"
      <4>1. Pc(z, m) \in {"get", "drain"}
        BY <2>2, <3>1 DEF Pcs, AskingPcs
      <4>2. QED
        BY <1>11, <2>1, <2>2, <2>3, <3>1, <4>1 DEF Sees, Takes, SkippingPcs
    <3>2. CASE p[m].op = "filter"
      BY <1>11, <2>1, <2>2, <3>2 DEF Sees, Takes, SkippingPcs
    <3>3. CASE p[m].op = "append"
      <4>1. Pc(z, m) = "get"
        BY <2>2, <3>3 DEF Pcs, AskingPcs
      <4>2. QED
        BY <1>11, <2>1, <2>2, <3>3, <4>1 DEF Sees, Takes, SkippingPcs
    <3>4. QED
      BY <2>3, <3>1, <3>2, <3>3
  <2>5. Pc(z, m) \notin SkippingPcs => Got(z2, m, i) = b
    BY <2>2 DEF Takes, SkippingPcs
  <2>6. A(z2, e) = A(z, e) + 1 /\ b \in {0, 1} /\ Sk(z, n) \in {0, 1}
    BY <1>1, <1>11 DEF CReturn, ReturnKnown, Known, NodeViewOK
  <2>7. Gets1(p, z2, e)
    <3> SUFFICES ASSUME Sees(p, z2, e)
                 PROVE  IF Got(z2, e[1], e[2]) = 1 THEN A(z2, e) = K(z2, s)
                        ELSE En(z2, s) = 1 /\ K(z2, s) < A(z2, e)
      BY <1>2 DEF Gets1
    <3>1. Pc(z, m) \notin SkippingPcs
      BY <1>11, <2>4
    <3>2. Sk(z, n) = 0 /\ Got(z2, e[1], e[2]) = b
      BY <1>11, <2>1, <2>2, <2>5, <2>6, <3>1
    <3>3. CASE b = 1
      BY <1>1, <1>5, <1>11, <2>2, <2>6, <3>2, <3>3 DEF ReturnKnown
    <3>4. CASE b = 0
      BY <1>1, <1>5, <1>11, <2>2, <2>6, <3>2, <3>4 DEF ReturnKnown
    <3>5. QED
      BY <2>6, <3>3, <3>4
  <2>8. Hears(p, z2, e)
    <3> SUFFICES ASSUME p[s].op = "linear", En(z, s) = 1, z.go PROVE Over(p, z2, e)
      BY <1>2, <1>4, <1>5 DEF Hears
    <3>1. ~ Skipping(p, z, d[s])
      BY <1>3 DEF Ended
    <3>2. Sk(z, n) # 1
      BY <1>1, <2>2, <3>1 DEF ReturnKnown, Known, NodeCtl, Skips
    <3>3. Sees(p, z2, c)
      BY <2>2, <2>4, <3>2
    <3>4. QED
      BY <1>11, <3>3 DEF Over
  <2>9. QED
    BY <1>6, <2>7, <2>8 DEF EdgeCtl
<1>12. CASE e = c /\ c = Executor
  <2>1. ~ Sees(p, z2, e)
    BY <1>12 DEF Sees
  <2>2. Hears(p, z2, e)
    <3> SUFFICES ASSUME A(z2, e) = K(z2, s) + 1 PROVE Over(p, z2, e)
      BY <1>2 DEF Hears
    <3>1. s = n /\ A(z2, e) = A(z, e) + 1
      BY <1>2, <1>12 DEF CReturn
    <3>2. A(z, e) = K(z, n)
      BY <1>3, <1>5, <3>1
    <3>3. b = 0
      <4>1. ~ (A(z, c) < K(z, n))
        BY <1>3, <1>12, <3>2
      <4>2. QED
        BY <4>1 DEF CReturn
    <3>4. z2.pc # "call"
      BY <1>12, <3>3 DEF CReturn
    <3>5. QED
      BY <1>12, <3>4 DEF Over
  <2>3. QED
    BY <1>6, <2>1, <2>2 DEF EdgeCtl, Gets1
<1>13. QED
  BY <1>7, <1>8, <1>9, <1>10, <1>11, <1>12

LEMMA ReturnControl ==
  ASSUME NEW p, NEW d, NEW z, NEW z2, NEW n, NEW c, NEW b, Ctl(p, d, z), Good(p, z2),
         CReturn(p, z, z2, n, c, b)
  PROVE  Ctl(p, d, z2)
<1>1. IsDriver(p, d) /\ IsPlan(p) /\ Executor \in Edges(p)
  BY AllKnown
<1>2. ASSUME NEW x \in DOMAIN p PROVE NodeCtl(p, d, z2, x)
  <2>1. Pace(d, z2, x) /\ Busy(p, d, z2, x) /\ Asked(p, z2, x)
    BY ReturnNode
  <2>2. Ended(p, d, z2, x) /\ Skips(p, d, z2, x)
    BY ReturnSkip
  <2>3. Filter(p, z2, x)
    BY ReturnFilter DEF Filter
  <2>4. Appends(p, z2, x)
    BY ReturnAppend DEF Appends
  <2>5. Linear(p, z2, x)
    BY ReturnLinear DEF Linear
  <2>6. QED
    BY <2>1, <2>2, <2>3, <2>4, <2>5 DEF NodeCtl
<1>3. \A e \in Edges(p) : EdgeCtl(p, d, z2, e)
  BY ReturnEdge
<1>4. R(z2, Executor) = A(z2, Executor) + Ca(z2, Executor)
  <2>1. R(z, Executor) = A(z, Executor) + Ca(z, Executor) /\ A(z, Executor) \in Nat
    BY <1>1, CtlParts DEF EdgeViewOK
  <2>2. QED
    BY <1>1, <2>1 DEF CReturn
<1>5. QED
  BY <1>1, <1>2, <1>3, <1>4, CtlBy
-----------------------------------------------------------------------------
(* Steps from outside.                                                     *)

\* The user cancels, or the executor is done.
LEMMA OutsideControl ==
  ASSUME NEW p, NEW d, NEW z, NEW z2, Ctl(p, d, z),
         z2.nd = z.nd, z2.st = z.st, z2.a = z.a, z2.r = z.r,
         z2.go => z.go, z2.pc = z.pc \/ z2.pc # "call"
  PROVE  Ctl(p, d, z2)
<1>1. Good(p, z2) /\ IsDriver(p, d)
  BY DEF Ctl, Good
<1>2. /\ ON(z2) = ON(z)
      /\ \A x : /\ Up(z2, x) = Up(z, x) /\ K(z2, x) = K(z, x) /\ En(z2, x) = En(z, x)
                /\ Ac(z2, x) = Ac(z, x) /\ Sk(z2, x) = Sk(z, x) /\ Fk(p, z2, x) = Fk(p, z, x)
                /\ El(z2, x) = El(z, x) /\ Pc(z2, x) = Pc(z, x) /\ Arg(z2, x) = Arg(z, x)
      /\ \A x, i : Got(z2, x, i) = Got(z, x, i)
      /\ \A c : Ca(z2, c) = Ca(z, c) /\ A(z2, c) = A(z, c) /\ R(z2, c) = R(z, c)
  BY DEF ON, Up, K, En, Ac, Sk, Fk, El, Pc, Arg, Got, Ca, A, R
<1>3. \A c : (Sees(p, z2, c) <=> Sees(p, z, c))
  BY <1>2 DEF Sees
<1>4. \A c : Over(p, z, c) => Over(p, z2, c)
  BY <1>2, <1>3 DEF Over
<1>5. \A D : /\ Skipping(p, z2, D) <=> Skipping(p, z, D)
             /\ Skipped(p, z2, D) <=> Skipped(p, z, D)
  BY <1>2 DEF Skipping, Skipped
<1>6. ASSUME NEW x \in DOMAIN p PROVE NodeCtl(p, d, z2, x)
  <2>1. NodeCtl(p, d, z, x)
    BY AllKnown DEF Known
  <2>2. Pace(d, z2, x)
    BY <1>2, <2>1 DEF NodeCtl, Pace
  <2>3. Linear(p, z2, x)
    BY <1>2, <2>1 DEF NodeCtl, Linear
  <2>4. Filter(p, z2, x)
    BY <1>2, <2>1 DEF NodeCtl, Filter
  <2>5. Appends(p, z2, x)
    BY <1>2, <2>1 DEF NodeCtl, Appends
  <2>6. Busy(p, d, z2, x)
    BY <1>2, <2>1 DEF NodeCtl, Busy
  <2>7. Ended(p, d, z2, x)
    BY <1>2, <1>5, <2>1 DEF NodeCtl, Ended
  <2>8. Skips(p, d, z2, x)
    BY <1>2, <1>5, <2>1 DEF NodeCtl, Skips
  <2>9. Asked(p, z2, x)
    BY <1>2, <2>1 DEF NodeCtl, Asked
  <2>10. QED
    BY <2>2, <2>3, <2>4, <2>5, <2>6, <2>7, <2>8, <2>9 DEF NodeCtl
<1>7. ASSUME NEW c \in Edges(p) PROVE EdgeCtl(p, d, z2, c)
  <2>1. EdgeCtl(p, d, z, c)
    BY AllKnown DEF KnownEdge
  <2>2. Edge(p, d, z2, c)
    BY <1>2, <2>1 DEF EdgeCtl, Edge
  <2>3. Gets1(p, z2, c)
    BY <1>2, <1>3, <2>1 DEF EdgeCtl, Gets1
  <2>4. Hears(p, z2, c)
    BY <1>2, <1>4, <2>1 DEF EdgeCtl, Hears
  <2>5. QED
    BY <2>2, <2>3, <2>4 DEF EdgeCtl
<1>8. R(z2, Executor) = A(z2, Executor) + Ca(z2, Executor)
  BY <1>2, CtlParts
<1>9. QED
  BY <1>1, <1>6, <1>7, <1>8, CtlBy

\* Nothing has been asked yet.
LEMMA FreshControl ==
  ASSUME NEW p, NEW d, NEW z, Good(p, z), IsDriver(p, d), ON(z) = {},
         \A x \in DOMAIN p : Up(z, x) = 0,
         \A c \in Edges(p) : A(z, c) = 0 /\ R(z, c) = 0
  PROVE  Ctl(p, d, z)
<1>1. IsPlan(p) /\ ViewOK(p, z)
  BY Views
<1>2. \A x \in DOMAIN p : /\ Ac(z, x) = 0 /\ En(z, x) = 0 /\ K(z, x) = 0 /\ El(z, x) = 1
                          /\ d[x] \in Edges(p) /\ R(z, d[x]) = 0
  <2> TAKE x \in DOMAIN p
  <2>1. NodeViewOK(p, z, x)
    BY <1>1 DEF ViewOK
  <2>2. Ac(z, x) = 0 /\ En(z, x) = 0 /\ K(z, x) = 0
    BY <2>1 DEF NodeViewOK
  <2>3. El(z, x) = 1
    BY <2>2 DEF El
  <2>4. d[x] \in Edges(p)
    BY <1>1, DriverShape
  <2>5. QED
    BY <2>2, <2>3, <2>4
<1>3. \A c \in Edges(p) : /\ Ca(z, c) = 0 /\ Src(p, c) \in DOMAIN p
                          /\ c # Executor => c[1] \in DOMAIN p
  <2> TAKE c \in Edges(p)
  <2>1. EdgeViewOK(p, z, c)
    BY <1>1 DEF ViewOK
  <2>2. QED
    BY <1>1, <2>1, EdgeShape DEF EdgeViewOK
<1>4. ASSUME NEW x \in DOMAIN p PROVE NodeCtl(p, d, z, x)
  <2>1. Pace(d, z, x)
    BY <1>2 DEF Pace
  <2>2. \A i \in 1 .. Arity(p, x) : <<x, i>> \in Edges(p)
    BY <1>1, IsEdge
  <2>3. \A i \in 1 .. Arity(p, x) : A(z, <<x, i>>) = 0 /\ R(z, <<x, i>>) = 0 /\ Ca(z, <<x, i>>) = 0
    BY <1>3, <2>2
  <2>4. Linear(p, z, x)
    BY <1>2, <2>3 DEF Linear
  <2>5. p[x].op \in {"filter", "append"} => Arity(p, x) = 2
    BY <1>1, PlanArity
  <2>6. Filter(p, z, x)
    BY <2>3, <2>5 DEF Filter
  <2>7. Appends(p, z, x)
    BY <2>3, <2>5 DEF Appends
  <2>8. Busy(p, d, z, x) /\ Asked(p, z, x) /\ Ended(p, d, z, x)
    BY <1>2 DEF Busy, Asked, Ended
  <2>9. Skips(p, d, z, x)
    BY <1>2 DEF Skips
  <2>10. QED
    BY <2>1, <2>4, <2>6, <2>7, <2>8, <2>9 DEF NodeCtl
<1>5. ASSUME NEW c \in Edges(p) PROVE EdgeCtl(p, d, z, c)
  <2>1. ~ Sees(p, z, c)
    BY <1>2, <1>3 DEF Sees
  <2>2. QED
    BY <1>2, <1>3, <2>1 DEF EdgeCtl, Edge, Gets1, Hears
<1>6. Executor \in Edges(p)
  BY DEF Edges
<1>7. QED
  BY <1>3, <1>4, <1>5, <1>6, CtlBy

-----------------------------------------------------------------------------
(* The steps of the code are the steps above.                              *)

\* The node on top changes and nothing else does; b is 1 if its coroutine goes on
\* running.
OwnChange(p, z, z2, n, b) ==
  /\ z.st # <<>> /\ TopOf(z.st).node = n
  /\ \/ b = 1 /\ z2.st = SetInside(z.st, TRUE)
     \/ b = 0 /\ z2.st = SetInside(z.st, FALSE)
     \/ b = 1 /\ z2.st = z.st /\ TopOf(z.st).inside
  /\ \A x \in DOMAIN p : x # n => z2.nd[x] = z.nd[x]
  /\ z2.nd[n].started = z.nd[n].started /\ z2.nd[n].skip = z.nd[n].skip
  /\ z2.nd[n].popped = z.nd[n].popped /\ z2.nd[n].local.got = z.nd[n].local.got
  /\ z2.a = z.a /\ z2.r = z.r /\ z2.go = z.go /\ z2.pc = z.pc

LEMMA InsideViews ==
  ASSUME NEW p, NEW nd, NEW st, Good0(p, nd, st), st # <<>>, NEW st2
  PROVE  /\ st2 = SetInside(st, TRUE) => TopReplaced(st, st2, [TopOf(st) EXCEPT !.inside = TRUE])
         /\ st2 = SetInside(st, FALSE) => TopReplaced(st, st2, [TopOf(st) EXCEPT !.inside = FALSE])
<1>1. PICK f : f = st[Len(st)]
  OBVIOUS
<1>2. IsPlan(p) /\ StackOK(p, nd, st) /\ f \in FrameType(p) /\ f = TopOf(st)
  BY <1>1, TopTyped DEF Good0, TopOf
<1>3. PICK g : g = [f EXCEPT !.inside = TRUE]
  OBVIOUS
<1>4. PICK h : h = [f EXCEPT !.inside = FALSE]
  OBVIOUS
<1>5. /\ g \in FrameType(p) /\ g.node = f.node /\ g.consumer = f.consumer /\ g.inside
      /\ h \in FrameType(p) /\ h.node = f.node /\ h.consumer = f.consumer /\ ~ h.inside
  BY <1>2, <1>3, <1>4 DEF FrameType
<1>6. st2 = SetInside(st, TRUE) => TopReplaced(st, st2, g)
  <2> HAVE st2 = SetInside(st, TRUE)
  <2>1. st2 = [st EXCEPT ![Len(st)] = g]
    BY <1>1, <1>3 DEF SetInside, TopOf
  <2>2. QED
    BY <1>1, <1>2, <1>5, <2>1, SameViews
<1>7. st2 = SetInside(st, FALSE) => TopReplaced(st, st2, h)
  <2> HAVE st2 = SetInside(st, FALSE)
  <2>1. st2 = [st EXCEPT ![Len(st)] = h]
    BY <1>1, <1>4 DEF SetInside, TopOf
  <2>2. QED
    BY <1>1, <1>2, <1>5, <2>1, SameViews
<1>8. QED
  BY <1>2, <1>3, <1>4, <1>6, <1>7

LEMMA OwnViews ==
  ASSUME NEW p, NEW z, NEW z2, NEW n, NEW b, Good(p, z), OwnChange(p, z, z2, n, b)
  PROVE  /\ On(z2.st) = On(z.st) /\ Cal(z2.st) = Cal(z.st) /\ n \in DOMAIN p
         /\ b \in {0, 1}
         /\ n \in Act(z2.st) <=> b = 1
         /\ \A x : x # n => (x \in Act(z2.st) <=> x \in Act(z.st))
<1>1. IsPlan(p) /\ StackOK(p, z.nd, z.st) /\ z.st # <<>> /\ TopOf(z.st).node = n /\ Good0(p, z.nd, z.st)
  BY DEF Good, Good0, OwnChange
<1>2. n \in DOMAIN p
  BY <1>1, TopTyped
<1>3. CASE b = 1 /\ z2.st = SetInside(z.st, TRUE)
  <2>1. PICK g : g = [TopOf(z.st) EXCEPT !.inside = TRUE]
    OBVIOUS
  <2>2. TopReplaced(z.st, z2.st, g)
    BY <1>1, <1>3, <2>1, InsideViews
  <2>3. g.inside /\ g.node = n
    BY <1>1, <2>1, TopTyped DEF FrameType
  <2>4. /\ On(z2.st) = On(z.st) /\ Cal(z2.st) = Cal(z.st)
        /\ \A x : x \in Act(z2.st) <=> x \in Act(z.st) \/ x = n
    BY <2>2, <2>3 DEF TopReplaced
  <2>5. QED
    BY <1>2, <1>3, <2>4
<1>4. CASE b = 0 /\ z2.st = SetInside(z.st, FALSE)
  <2>1. PICK g : g = [TopOf(z.st) EXCEPT !.inside = FALSE]
    OBVIOUS
  <2>2. TopReplaced(z.st, z2.st, g)
    BY <1>1, <1>4, <2>1, InsideViews
  <2>3. ~ g.inside /\ g.node = n
    BY <1>1, <2>1, TopTyped DEF FrameType
  <2>4. /\ On(z2.st) = On(z.st) /\ Cal(z2.st) = Cal(z.st)
        /\ \A x : x \in Act(z2.st) <=> x \in Act(z.st) /\ x # n
    BY <2>2, <2>3 DEF TopReplaced
  <2>5. b \in {0, 1} /\ b # 1
    BY <1>4
  <2>6. QED
    BY <1>2, <2>4, <2>5
<1>5. CASE b = 1 /\ z2.st = z.st /\ TopOf(z.st).inside
  <2>1. TopView(z.st, TopOf(z.st))
    BY <1>1, HasTopView DEF TopOf
  <2>2. n \in Act(z.st)
    BY <1>1, <1>5, <2>1 DEF TopView
  <2>3. QED
    BY <1>1, <1>2, <1>5, <2>2
<1>6. QED
  BY <1>3, <1>4, <1>5 DEF OwnChange

LEMMA OwnLink ==
  ASSUME NEW p, NEW z, NEW z2, NEW n, NEW b, Good(p, z), OwnChange(p, z, z2, n, b)
  PROVE  /\ OwnStep(p, z, z2, n)
         /\ Ac(z2, n) = b
         /\ Ac(z, n) = IF TopOf(z.st).inside THEN 1 ELSE 0
<1>1. TopIs(p, z, n) /\ (TopOf(z.st).inside <=> Ac(z, n) = 1)
  BY TopIsTop DEF OwnChange
<1>2. /\ On(z2.st) = On(z.st) /\ Cal(z2.st) = Cal(z.st) /\ n \in DOMAIN p /\ b \in {0, 1}
      /\ n \in Act(z2.st) <=> b = 1
      /\ \A x : x # n => (x \in Act(z2.st) <=> x \in Act(z.st))
  BY OwnViews
<1>3. SameCalls(p, z, z2)
  BY <1>2 DEF SameCalls, ON, Ca
<1>4. SameHistory(p, z, z2)
  BY DEF SameHistory, OwnChange, A, R
<1>5. ASSUME NEW x \in DOMAIN p, x # n
      PROVE  SameAt(p, z, z2, x) /\ Ac(z2, x) = Ac(z, x)
  <2>1. z2.nd[x] = z.nd[x]
    BY <1>5 DEF OwnChange
  <2>2. SameAt(p, z, z2, x)
    BY <2>1 DEF SameAt, Up, K, En, Sk, El, Fk, Pc, Arg, Got
  <2>3. Ac(z2, x) = Ac(z, x)
    BY <1>2, <1>5 DEF Ac
  <2>4. QED
    BY <2>2, <2>3
<1>6. /\ Up(z2, n) = Up(z, n) /\ Sk(z2, n) = Sk(z, n)
      /\ Got(z2, n, 1) = Got(z, n, 1) /\ Got(z2, n, 2) = Got(z, n, 2)
  BY DEF Up, Sk, Got, OwnChange
<1>7. OwnStep(p, z, z2, n)
  BY <1>1, <1>3, <1>4, <1>5, <1>6 DEF OwnStep
<1>8. Ac(z2, n) = b
  BY <1>2 DEF Ac
<1>9. Ac(z, n) = IF TopOf(z.st).inside THEN 1 ELSE 0
  BY <1>1 DEF Ac
<1>10. QED
  BY <1>7, <1>8, <1>9

\* What is popped stays popped.
LEMMA PopsSame ==
  ASSUME NEW p, NEW z, NEW z2, Pops(p, z),
         \A c \in Edges(p) : Up(z2, Src(p, c)) = 1 =>
           /\ Up(z, Src(p, c)) = 1 /\ A(z2, c) = A(z, c)
           /\ z2.nd[Src(p, c)].popped[c] = z.nd[Src(p, c)].popped[c]
           /\ K(z2, Src(p, c)) = K(z, Src(p, c))
  PROVE  Pops(p, z2)
BY DEF Pops

LEMMA OwnPops ==
  ASSUME NEW p, NEW d, NEW z, NEW z2, NEW n, NEW b, Ctl(p, d, z), Pops(p, z), OwnChange(p, z, z2, n, b),
         K(z2, n) = K(z, n) \/ (K(z2, n) = K(z, n) + 1 /\ Ac(z, n) = 1)
  PROVE  Pops(p, z2)
<1>1. Good(p, z) /\ \A x \in DOMAIN p : Known(p, d, z, x)
  BY AllKnown DEF Ctl
<1>2. OwnStep(p, z, z2, n)
  BY <1>1, OwnLink
<1>3. ASSUME NEW c \in Edges(p), Up(z2, Src(p, c)) = 1
      PROVE  z2.nd[Src(p, c)].popped[c] = IF A(z2, c) <= K(z2, Src(p, c)) THEN A(z2, c)
                                          ELSE K(z2, Src(p, c))
  <2>1. PICK x \in DOMAIN p : x = Src(p, c)
    BY AllKnown DEF KnownEdge
  <2>2. Up(z, x) = 1 /\ A(z2, c) = A(z, c) /\ (x # n => K(z2, x) = K(z, x))
    BY <1>2, <1>3, <2>1 DEF OwnStep, SameHistory, SameAt
  <2>3. z2.nd[x].popped[c] = z.nd[x].popped[c]
    BY <2>1 DEF OwnChange
  <2>4. z.nd[x].popped[c] = IF A(z, c) <= K(z, x) THEN A(z, c) ELSE K(z, x)
    BY <2>1, <2>2 DEF Pops
  <2>5. CASE K(z2, x) = K(z, x)
    BY <2>1, <2>2, <2>3, <2>4, <2>5
  <2>6. CASE x = n /\ K(z2, n) = K(z, n) + 1 /\ Ac(z, n) = 1
    <3>1. A(z, c) \in Nat /\ K(z, x) \in Nat /\ En(z, x) = 0 /\ Edge(p, d, z, c)
      BY <1>1, <2>1, <2>6, AllKnown DEF KnownEdge, EdgeViewOK, EdgeCtl, Known, NodeViewOK
    <3>2. A(z, c) <= K(z, x)
      BY <2>1, <3>1 DEF Edge
    <3>3. QED
      BY <2>1, <2>2, <2>3, <2>4, <2>6, <3>1, <3>2
  <2>7. QED
    BY <2>2, <2>5, <2>6
<1>4. QED
  BY <1>3 DEF Pops

\* Everything the control invariant says.
Steady(p, d, z) == Ctl(p, d, z) /\ Pops(p, z)

\* The parts of z2 that are not nodes or stack are those of z.
SameRest(z, z2) == z2.a = z.a /\ z2.r = z.r /\ z2.go = z.go /\ z2.pc = z.pc

LEMMA EndLink ==
  ASSUME NEW p, NEW d, NEW z, NEW z2, NEW n, NEW why \in Exceptions, Steady(p, d, z), SameRest(z, z2),
         EndStep(z.nd, z.st, z2.nd, z2.st, n, why),
         p[n].op = "linear" /\ z.go => Pc(z, n) = "apply"
  PROVE  Steady(p, d, z2) /\ CEnd(p, z, z2, n)
<1>1. Ctl(p, d, z) /\ Pops(p, z) /\ Good(p, z) /\ Good0(p, z.nd, z.st) /\ Inside(z.st, n)
  BY DEF Steady, Ctl, Good, EndStep
<1>2. n \in DOMAIN p /\ z.nd[n] \in NodeType(p, n) /\ z.nd[n].started /\ z.st # <<>> /\ n = TopOf(z.st).node
  BY <1>1, InsideTyped
<1>3. Good0(p, z2.nd, z2.st)
  BY <1>1, EndGood
<1>4. Good(p, z2)
  BY <1>1, <1>3 DEF Good, SameRest
<1>5. PICK x : x = [z.nd[n] EXCEPT !.done = TRUE, !.exception = why]
  OBVIOUS
<1>6. /\ x.started = z.nd[n].started /\ x.done = TRUE /\ x.skip = z.nd[n].skip /\ x.queue = z.nd[n].queue
      /\ x.popped = z.nd[n].popped /\ x.local = z.nd[n].local
  BY <1>2, <1>5 DEF NodeType
<1>7. z.nd = [y \in DOMAIN p |-> z.nd[y]]
  BY <1>1 DEF Good0, Shape
<1>8. z2.nd[n] = x /\ (\A y \in DOMAIN p : y # n => z2.nd[y] = z.nd[y]) /\ z2.st = SetInside(z.st, FALSE)
  BY <1>2, <1>5, <1>7 DEF EndStep
<1>9. PICK b : b = 0
  OBVIOUS
<1>10. OwnChange(p, z, z2, n, b)
  BY <1>2, <1>6, <1>8, <1>9 DEF OwnChange, SameRest
<1>11. OwnStep(p, z, z2, n) /\ Ac(z2, n) = 0 /\ Ac(z, n) = 1
  BY <1>1, <1>9, <1>10, OwnLink DEF Inside
<1>12. /\ En(z2, n) = 1 /\ K(z2, n) = K(z, n) /\ Pc(z2, n) = Pc(z, n) /\ Arg(z2, n) = Arg(z, n)
       /\ Fk(p, z2, n) = Fk(p, z, n) /\ El(z2, n) = El(z, n)
  BY <1>2, <1>6, <1>8 DEF En, K, Pc, Arg, Fk, El
<1>13. CEnd(p, z, z2, n)
  BY <1>11, <1>12 DEF CEnd
<1>14. Ctl(p, d, z2)
  BY <1>1, <1>4, <1>13, EndControl
<1>15. Pops(p, z2)
  BY <1>1, <1>10, <1>12, OwnPops
<1>16. QED
  BY <1>13, <1>14, <1>15 DEF Steady

LEMMA SinkLink ==
  ASSUME NEW p, NEW d, NEW z, NEW z2, NEW n, NEW e \in BOOLEAN, NEW o, LocalOK(p, n, o),
         NEW b \in Seq(0 .. NumRows), Len(b) <= BlockSize, Steady(p, d, z), SameRest(z, z2),
         SinkStep(z.nd, z.st, z2.nd, z2.st, n, e, b, o),
         o.got = z.nd[n].local.got, o.arg = z.nd[n].local.arg,
         o.skip_next_block = z.nd[n].local.skip_next_block,
         o.pc = z.nd[n].local.pc \/ (z.nd[n].local.pc = "tail" /\ o.pc = "end"),
         p[n].op # "linear" => e,
         p[n].op = "linear" => \/ /\ z.nd[n].local.pc = "apply" /\ e
                                  /\ \A i \in 1 .. Arity(p, n) : z.nd[n].local.got[i]
                               \/ z.nd[n].local.pc = "fake"
  PROVE  Steady(p, d, z2) /\ CSink(p, z, z2, n)
<1>1. Ctl(p, d, z) /\ Pops(p, z) /\ Good(p, z) /\ Good0(p, z.nd, z.st) /\ Inside(z.st, n)
  BY DEF Steady, Ctl, Good, SinkStep
<1>2. n \in DOMAIN p /\ z.nd[n] \in NodeType(p, n) /\ z.nd[n].started /\ z.st # <<>> /\ n = TopOf(z.st).node
      /\ ~ z.nd[n].done
  BY <1>1, InsideTyped
<1>3. Good0(p, z2.nd, z2.st)
  BY <1>1, SinkGood
<1>4. Good(p, z2)
  BY <1>1, <1>3 DEF Good, SameRest
<1>5. PICK x : x = [z.nd[n] EXCEPT !.queue = Append(z.nd[n].queue, e), !.buffer = b, !.local = o]
  OBVIOUS
<1>6. /\ x.started = z.nd[n].started /\ x.done = z.nd[n].done /\ x.skip = z.nd[n].skip
      /\ x.queue = Append(z.nd[n].queue, e)
      /\ x.popped = z.nd[n].popped /\ x.local = o
  BY <1>2, <1>5 DEF NodeType
<1>7. z.nd = [y \in DOMAIN p |-> z.nd[y]]
  BY <1>1 DEF Good0, Shape
<1>8. z2.nd[n] = x /\ (\A y \in DOMAIN p : y # n => z2.nd[y] = z.nd[y]) /\ z2.st = SetInside(z.st, FALSE)
  BY <1>2, <1>5, <1>7 DEF SinkStep
<1>9. PICK v : v = 0
  OBVIOUS
<1>10. OwnChange(p, z, z2, n, v)
  BY <1>2, <1>6, <1>8, <1>9 DEF OwnChange, SameRest
<1>11. OwnStep(p, z, z2, n) /\ Ac(z2, n) = 0 /\ Ac(z, n) = 1
  BY <1>1, <1>9, <1>10, OwnLink DEF Inside
<1>12. /\ En(z2, n) = En(z, n) /\ Arg(z2, n) = Arg(z, n) /\ Pc(z2, n) = o.pc /\ Pc(z, n) = z.nd[n].local.pc
  BY <1>2, <1>6, <1>8 DEF En, Pc, Arg
<1>13. z.nd[n].queue \in Seq(BOOLEAN) /\ K(z, n) = Len(z.nd[n].queue) /\ K(z, n) \in Nat
  <2>1. z.nd[n].queue \in Seq(BOOLEAN)
    BY <1>2 DEF NodeType
  <2>2. z.nd[n].started
    BY <1>2
  <2>3. K(z, n) = Len(z.nd[n].queue)
    BY <2>2, Zenon DEF K
  <2>4. QED
    BY <2>1, <2>3, LenProperties, Zenon
<1>14. /\ Len(Append(z.nd[n].queue, e)) = K(z, n) + 1
       /\ Append(z.nd[n].queue, e)[K(z, n) + 1] = e
  BY <1>13
<1>15. K(z2, n) = K(z, n) + 1
  BY <1>2, <1>6, <1>8, <1>14 DEF K
<1>16. e => El(z2, n) = 1
  BY <1>6, <1>8, <1>13, <1>14, <1>15 DEF El
<1>17. e /\ p[n].op # "source" => Fk(p, z2, n) = 0
  BY <1>16 DEF Fk
<1>18. p[n].op = "source" => Fk(p, z2, n) = Fk(p, z, n)
  BY <1>6, <1>8 DEF Fk
<1>19. \A i \in 1 .. Arity(p, n) : z.nd[n].local.got[i] => Got(z, n, i) = 1
  BY DEF Got
<1>20. CSink(p, z, z2, n)
  BY <1>11, <1>12, <1>15, <1>16, <1>17, <1>18, <1>19 DEF CSink
<1>21. Ctl(p, d, z2)
  BY <1>1, <1>4, <1>20, SinkControl
<1>22. Pops(p, z2)
  BY <1>1, <1>10, <1>11, <1>15, OwnPops
<1>23. QED
  BY <1>20, <1>21, <1>22 DEF Steady

LEMMA ResumeLink ==
  ASSUME NEW p, NEW d, NEW z, NEW z2, NEW n, NEW c, NEW o, Steady(p, d, z), SameRest(z, z2),
         ResumeStep(z.nd, z.st, z2.nd, z2.st, n, c, o),
         AfterSinkIs(p, n, z.nd[n].skip, z.nd[n].local, o)
  PROVE  Steady(p, d, z2) /\ CResume(p, z, z2, n, c)
<1>1. Ctl(p, d, z) /\ Pops(p, z) /\ Good(p, z) /\ Good0(p, z.nd, z.st) /\ Waits(z.st, n, c) /\ LocalOK(p, n, o)
  BY DEF Steady, Ctl, Good, ResumeStep, AfterSinkIs
<1>2. /\ n \in DOMAIN p /\ NodeOK(p, n, z.nd[n]) /\ z.nd[n].started /\ z.st # <<>> /\ n = TopOf(z.st).node
      /\ c \in Edges(p) /\ n = Src(p, c) /\ z.nd[n] \in NodeType(p, n) /\ c = TopOf(z.st).consumer
      /\ ~ TopOf(z.st).inside
  BY <1>1, TopTyped DEF Waits, NodeOK
<1>3. Good0(p, z2.nd, z2.st)
  BY <1>1, ResumeGood
<1>4. Good(p, z2)
  BY <1>1, <1>3 DEF Good, SameRest
<1>5. PICK x : x = [z.nd[n] EXCEPT !.local = o]
  OBVIOUS
<1>6. /\ x.started = z.nd[n].started /\ x.done = z.nd[n].done /\ x.skip = z.nd[n].skip
      /\ x.queue = z.nd[n].queue /\ x.popped = z.nd[n].popped /\ x.local = o
  BY <1>2, <1>5 DEF NodeType
<1>7. z.nd = [y \in DOMAIN p |-> z.nd[y]]
  BY <1>1 DEF Good0, Shape
<1>8. z2.nd[n] = x /\ (\A y \in DOMAIN p : y # n => z2.nd[y] = z.nd[y]) /\ z2.st = SetInside(z.st, TRUE)
      /\ z.nd[n].popped[c] = Len(z.nd[n].queue) /\ ~ z.nd[n].done
  BY <1>2, <1>5, <1>7 DEF ResumeStep
<1>9. PICK b : b = 1
  OBVIOUS
<1>10. o.got = z.nd[n].local.got
  BY DEF AfterSinkIs
<1>11. OwnChange(p, z, z2, n, b)
  BY <1>2, <1>6, <1>8, <1>9, <1>10 DEF OwnChange, SameRest
<1>12. OwnStep(p, z, z2, n) /\ Ac(z2, n) = 1 /\ Ac(z, n) = 0
  BY <1>1, <1>2, <1>9, <1>11, OwnLink
<1>13. /\ En(z2, n) = En(z, n) /\ K(z2, n) = K(z, n) /\ El(z2, n) = El(z, n) /\ En(z, n) = 0
       /\ K(z, n) = Len(z.nd[n].queue) /\ Up(z, n) = 1
  BY <1>2, <1>6, <1>8 DEF En, K, El, Up
<1>14. Ca(z, c) = 1
  BY <1>1, <1>2, TopIsTop
<1>15. A(z, c) >= K(z, n)
  <2>1. A(z, c) \in Nat /\ K(z, n) \in Nat
    BY <1>1, <1>2, AllKnown DEF KnownEdge, EdgeViewOK, Known, NodeViewOK
  <2>2. z.nd[n].popped[c] = IF A(z, c) <= K(z, n) THEN A(z, c) ELSE K(z, n)
    BY <1>1, <1>2, <1>13 DEF Pops
  <2>3. QED
    BY <1>8, <1>13, <2>1, <2>2
<1>16. /\ p[n].op = "source" => Fk(p, z2, n) = Sk(z, n) /\ Pc(z2, n) = Pc(z, n)
       /\ p[n].op # "source" => Fk(p, z2, n) = Fk(p, z, n)
       /\ p[n].op \in {"filter", "append"} => Pc(z2, n) = Pc(z, n) /\ Arg(z2, n) = Arg(z, n)
       /\ p[n].op = "linear" => /\ Pc(z2, n) = IF Sk(z, n) = 1 THEN "drain" ELSE "get"
                                /\ Arg(z2, n) = 1
  <2>1. p[n].op = "source" => Fk(p, z2, n) = Sk(z, n) /\ Pc(z2, n) = Pc(z, n)
    BY <1>6, <1>8 DEF AfterSinkIs, Fk, Sk, Pc
  <2>2. p[n].op # "source" => Fk(p, z2, n) = Fk(p, z, n)
    BY <1>13 DEF Fk
  <2>3. p[n].op \in {"filter", "append"} => Pc(z2, n) = Pc(z, n) /\ Arg(z2, n) = Arg(z, n)
    BY <1>6, <1>8 DEF AfterSinkIs, Arg, Pc
  <2>4. Sk(z, n) = 1 <=> z.nd[n].skip
    BY DEF Sk
  <2>5. p[n].op = "linear" => /\ Pc(z2, n) = IF Sk(z, n) = 1 THEN "drain" ELSE "get"
                              /\ Arg(z2, n) = 1
    BY <1>6, <1>8, <2>4 DEF AfterSinkIs, Arg, Pc
  <2>6. QED
    BY <2>1, <2>2, <2>3, <2>5
<1>17. CResume(p, z, z2, n, c)
  BY <1>2, <1>12, <1>13, <1>14, <1>15, <1>16 DEF CResume
<1>18. Ctl(p, d, z2)
  BY <1>1, <1>4, <1>17, ResumeControl
<1>19. Pops(p, z2)
  BY <1>1, <1>11, <1>13, OwnPops
<1>20. QED
  BY <1>17, <1>18, <1>19 DEF Steady

\* How the local variables change when the operator goes on by itself.
LocalMove(p, n, q, o) ==
  /\ o.got = q.got
  /\ \/ /\ p[n].op = "filter"
        /\ \/ q.pc = "check" /\ o.pc = "tail"
           \/ q.pc \in {"first", "check"} /\ o.pc = "rows" /\ q.got[1] /\ q.got[2]
           \/ q.pc = "rows" /\ o.pc \in {"rows", "right"}
           \/ q.pc = "test" /\ o.pc = "left"
           \/ q.pc = "test" /\ o.pc = "skip_left" /\ q.got[2]
     \/ /\ p[n].op = "append" /\ q.pc = "copy"
        /\ \/ o.pc = "tail" /\ q.arg = 2 /\ o.arg = 2
           \/ o.pc = "get" /\ q.arg = 1 /\ o.arg = 2
           \/ o.pc = "get" /\ o.arg = q.arg /\ q.got[q.arg]
           \/ o.pc = "copy" /\ o.arg = q.arg

LEMMA LocalLink ==
  ASSUME NEW p, NEW d, NEW z, NEW z2, NEW n, NEW o, LocalOK(p, n, o),
         NEW b \in Seq(0 .. NumRows), Len(b) <= BlockSize, Steady(p, d, z), SameRest(z, z2),
         LocalStep(z.nd, z.st, z2.nd, z2.st, n, b, o), LocalMove(p, n, z.nd[n].local, o)
  PROVE  Steady(p, d, z2) /\ CLocal(p, z, z2, n)
<1>1. Ctl(p, d, z) /\ Pops(p, z) /\ Good(p, z) /\ Good0(p, z.nd, z.st) /\ Inside(z.st, n)
  BY DEF Steady, Ctl, Good, LocalStep
<1>2. n \in DOMAIN p /\ z.nd[n] \in NodeType(p, n) /\ z.nd[n].started /\ z.st # <<>> /\ n = TopOf(z.st).node
      /\ ~ z.nd[n].done
  BY <1>1, InsideTyped
<1>3. Good0(p, z2.nd, z2.st)
  BY <1>1, LocalGood
<1>4. Good(p, z2)
  BY <1>1, <1>3 DEF Good, SameRest
<1>5. PICK x : x = [z.nd[n] EXCEPT !.queue = z.nd[n].queue, !.buffer = b, !.local = o]
  OBVIOUS
<1>6. /\ x.started = z.nd[n].started /\ x.done = z.nd[n].done /\ x.skip = z.nd[n].skip
      /\ x.queue = z.nd[n].queue /\ x.popped = z.nd[n].popped /\ x.local = o
  BY <1>2, <1>5 DEF NodeType
<1>7. z.nd = [y \in DOMAIN p |-> z.nd[y]]
  BY <1>1 DEF Good0, Shape
<1>8. z2.nd[n] = x /\ (\A y \in DOMAIN p : y # n => z2.nd[y] = z.nd[y]) /\ z2.st = z.st
  BY <1>2, <1>5, <1>7 DEF LocalStep
<1>9. PICK v : v = 1
  OBVIOUS
<1>10. OwnChange(p, z, z2, n, v)
  BY <1>1, <1>2, <1>6, <1>8, <1>9 DEF OwnChange, SameRest, LocalMove, Inside
<1>11. OwnStep(p, z, z2, n) /\ Ac(z2, n) = 1 /\ Ac(z, n) = 1
  BY <1>1, <1>9, <1>10, OwnLink DEF Inside
<1>12. /\ En(z2, n) = En(z, n) /\ K(z2, n) = K(z, n) /\ El(z2, n) = El(z, n)
  BY <1>2, <1>6, <1>8 DEF En, K, El
<1>13. p[n].op # "source" /\ Fk(p, z2, n) = Fk(p, z, n)
  BY <1>12 DEF Fk, LocalMove
<1>14. Pc(z2, n) = o.pc /\ Arg(z2, n) = o.arg /\ Pc(z, n) = z.nd[n].local.pc /\ Arg(z, n) = z.nd[n].local.arg
  BY <1>6, <1>8 DEF Pc, Arg
<1>15. \A i : z.nd[n].local.got[i] => Got(z, n, i) = 1
  BY DEF Got
<1>16. CLocal(p, z, z2, n)
  <2>1. CASE p[n].op = "filter"
    BY <1>11, <1>12, <1>13, <1>14, <1>15, <2>1 DEF CLocal, LocalMove
  <2>2. CASE p[n].op = "append"
    BY <1>11, <1>12, <1>13, <1>14, <1>15, <2>2 DEF CLocal, LocalMove
  <2>3. QED
    BY <2>1, <2>2 DEF LocalMove
<1>17. Ctl(p, d, z2)
  BY <1>1, <1>4, <1>16, LocalControl
<1>18. Pops(p, z2)
  BY <1>1, <1>10, <1>12, OwnPops
<1>19. QED
  BY <1>16, <1>17, <1>18 DEF Steady

EnteredViews(z, z2, c, n) ==
  /\ \A x : x \in On(z2.st) <=> x \in On(z.st) \/ x = n
  /\ \A x : x \in Cal(z2.st) <=> x \in Cal(z.st) \/ x = c
  /\ \A x : x \in Act(z2.st) <=> x \in Act(z.st) \/ (~ z.nd[n].started /\ x = n)

LEMMA EnterViews ==
  ASSUME NEW p, NEW z, NEW z2, NEW c, NEW k, NEW n, Good(p, z), n = Src(p, c),
         EnterStep(p, z.nd, z.st, z2.nd, z2.st, c, k)
  PROVE  EnteredViews(z, z2, c, n)
<1>1. IsPlan(p) /\ StackOK(p, z.nd, z.st) /\ c \in Edges(p) /\ k \in BOOLEAN /\ Shape(p, z.nd)
  BY DEF Good, Good0, EnterStep
<1>2. PICK g : g = [node |-> n, consumer |-> c, skip |-> k, inside |-> ~ z.nd[n].started]
  OBVIOUS
<1>3. n \in DOMAIN p /\ z.nd[n].started \in BOOLEAN
  BY <1>1, EdgeShape, NodeParts DEF Shape
<1>4. g \in FrameType(p) /\ g.node = n /\ g.consumer = c /\ (g.inside <=> ~ z.nd[n].started)
  BY <1>1, <1>2, <1>3 DEF FrameType
<1>5. z2.st = Append(z.st, g)
  BY <1>2 DEF EnterStep
<1>6. TopPushed(z.st, z2.st, g)
  BY <1>1, <1>4, <1>5, PushViews
<1>7. QED
  BY <1>4, <1>6 DEF TopPushed, EnteredViews

LEMMA EnterCalls ==
  ASSUME NEW p, NEW z, NEW z2, NEW c, NEW k, Good(p, z),
         EnterStep(p, z.nd, z.st, z2.nd, z2.st, c, k), c = Executor => z.pc = "call"
  PROVE  /\ Calls(p, z, c) /\ Src(p, c) \in DOMAIN p /\ Src(p, c) \notin ON(z)
         /\ k <=> (c # Executor /\ Pc(z, c[1]) \in SkippingPcs)
<1>1. IsPlan(p) /\ Good0(p, z.nd, z.st) /\ c \in Edges(p) /\ k \in BOOLEAN
  BY DEF Good, Good0, EnterStep
<1>2. Src(p, c) \in DOMAIN p /\ Src(p, c) \in Nat
  BY <1>1, EdgeShape, PlanShape
<1>3. CASE c = Executor
  <2>1. z.st = <<>> /\ ~ k
    BY <1>3 DEF EnterStep
  <2>2. ON(z) = {}
    BY <2>1 DEF ON, On
  <2>3. QED
    BY <1>1, <1>2, <1>3, <2>1, <2>2 DEF Calls
<1>4. CASE c # Executor
  <2>1. /\ Inside(z.st, c[1]) /\ c[2] = z.nd[c[1]].local.arg
        /\ z.nd[c[1]].local.pc \in AskingPcs /\ k = (z.nd[c[1]].local.pc \in SkippingPcs)
    BY <1>4 DEF EnterStep
  <2>2. z.st # <<>> /\ TopOf(z.st).node = c[1] /\ TopOf(z.st).inside
    BY <2>1 DEF Inside
  <2>3. TopIs(p, z, c[1]) /\ Ac(z, c[1]) = 1
    BY <2>2, TopIsTop
  <2>4. Calls(p, z, c)
    BY <1>1, <1>4, <2>1, <2>3 DEF Calls, Pc, Arg
  <2>5. Src(p, c) \notin ON(z)
    <3>1. Src(p, c) < c[1] /\ c[1] \in Nat
      BY <1>1, <1>4, EdgeShape, PlanShape
    <3>2. \A x \in ON(z) : c[1] <= x
      BY <2>3 DEF TopIs
    <3>3. QED
      BY <1>2, <3>1, <3>2
  <2>6. k <=> (c # Executor /\ Pc(z, c[1]) \in SkippingPcs)
    BY <1>1, <1>4, <2>1 DEF Pc
  <2>7. QED
    BY <1>2, <2>4, <2>5, <2>6
<1>5. QED
  BY <1>3, <1>4

\* The rounds after consumer c has called.
Rounds(p, d, z, c) ==
  IF Begins(p, z, c) THEN [z.r EXCEPT ![d[Src(p, c)]] = z.r[d[Src(p, c)]] + 1] ELSE z.r

LEMMA EnterLink ==
  ASSUME NEW p, NEW d, NEW z, NEW z2, NEW c, NEW k, Steady(p, d, z),
         EnterStep(p, z.nd, z.st, z2.nd, z2.st, c, k), c = Executor => z.pc = "call",
         z.go, z2.go, z2.pc = z.pc, z2.a = z.a, z2.r = Rounds(p, d, z, c)
  PROVE  Steady(p, d, z2) /\ CEnter(p, d, z, z2, c, Src(p, c))
<1>1. /\ Ctl(p, d, z) /\ Pops(p, z) /\ Good(p, z) /\ Good0(p, z.nd, z.st) /\ IsPlan(p) /\ Shape(p, z.nd)
      /\ c \in Edges(p) /\ k \in BOOLEAN /\ z.a \in [Edges(p) -> Nat] /\ z.r \in [Edges(p) -> Nat]
  BY DEF Steady, Ctl, Good, Good0, EnterStep
<1>2. PICK n : n = Src(p, c)
  OBVIOUS
<1>3. Calls(p, z, c) /\ n \in DOMAIN p /\ n \notin ON(z)
      /\ (k <=> (c # Executor /\ Pc(z, c[1]) \in SkippingPcs))
  BY <1>1, <1>2, EnterCalls
<1>4. d[n] \in Edges(p)
  BY <1>1, <1>3, AllKnown DEF Known
<1>5. /\ z2.r \in [Edges(p) -> Nat]
      /\ \A e \in Edges(p) : e # d[n] \/ ~ Begins(p, z, c) => R(z2, e) = R(z, e)
      /\ Begins(p, z, c) => R(z2, d[n]) = R(z, d[n]) + 1
  <2>1. CASE Begins(p, z, c)
    <3>1. z2.r = [z.r EXCEPT ![d[n]] = z.r[d[n]] + 1]
      BY <1>2, <2>1 DEF Rounds
    <3>2. QED
      BY <1>1, <1>4, <2>1, <3>1 DEF R
  <2>2. CASE ~ Begins(p, z, c)
    BY <1>1, <1>2, <2>2 DEF Rounds, R
  <2>3. QED
    BY <2>1, <2>2
<1>6. Good(p, z2)
  <2>1. Good0(p, z2.nd, z2.st)
    BY <1>1, EnterGood
  <2>2. QED
    BY <1>1, <1>5, <2>1 DEF Good
<1>7. /\ \A x : x \in On(z2.st) <=> x \in On(z.st) \/ x = n
      /\ \A x : x \in Cal(z2.st) <=> x \in Cal(z.st) \/ x = c
      /\ \A x : x \in Act(z2.st) <=> x \in Act(z.st) \/ (~ z.nd[n].started /\ x = n)
  <2>1. EnteredViews(z, z2, c, n)
    BY <1>1, <1>2, EnterViews
  <2>2. QED
    BY <2>1 DEF EnteredViews
<1>8. ON(z2) = ON(z) \cup {n}
  BY <1>7 DEF ON
<1>9. Ca(z2, c) = 1 /\ \A e \in Edges(p) : e # c => Ca(z2, e) = Ca(z, e)
  BY <1>7 DEF Ca
<1>10. \A e \in Edges(p) : A(z2, e) = A(z, e)
  BY DEF A
<1>11. PICK y : y = Entered(z.nd, p, n, k)
  OBVIOUS
<1>12. IsEntered(p, n, k, z.nd[n], y)
  BY <1>1, <1>3, <1>11, NodeEntered
<1>13. z2.nd[n] = y /\ \A x \in DOMAIN p : x # n => z2.nd[x] = z.nd[x]
  <2>1. z2.nd = [z.nd EXCEPT ![n] = y]
    BY <1>2, <1>11 DEF EnterStep
  <2>2. z.nd = [x \in DOMAIN p |-> z.nd[x]]
    BY <1>1 DEF Shape
  <2>3. QED
    BY <1>3, <2>1, <2>2
<1>14. ASSUME NEW x \in DOMAIN p, x # n
       PROVE  StillAt(p, z, z2, x) /\ Sk(z2, x) = Sk(z, x) /\ K(z2, x) = K(z, x) /\ En(z2, x) = En(z, x)
  <2>1. z2.nd[x] = z.nd[x]
    BY <1>13, <1>14
  <2>2. Ac(z2, x) = Ac(z, x)
    BY <1>7, <1>14 DEF Ac
  <2>3. QED
    BY <2>1, <2>2 DEF StillAt, Up, Fk, El, K, Pc, Arg, Got, Sk, En
<1>15. Sk(z2, n) = 1 <=> (c # Executor /\ Pc(z, c[1]) \in SkippingPcs)
  <2>1. y.skip <=> k
    BY <1>12 DEF IsEntered
  <2>2. QED
    BY <1>3, <1>13, <2>1 DEF Sk
<1>16. z.nd[n].started \in BOOLEAN /\ (Ac(z, n) = 1 => n \in ON(z))
  BY <1>1, <1>3, AllKnown, NodeParts DEF Shape, Known, NodeViewOK
<1>17. CASE z.nd[n].started
  <2>1. /\ y.started /\ y.done = z.nd[n].done /\ y.queue = z.nd[n].queue /\ y.local = z.nd[n].local
        /\ y.popped = z.nd[n].popped
    BY <1>12, <1>17 DEF IsEntered
  <2>2. K(z2, n) = K(z, n) /\ En(z2, n) = En(z, n) /\ Up(z2, n) = Up(z, n)
    BY <1>13, <1>17, <2>1 DEF K, En, Up
  <2>3. Ac(z2, n) = Ac(z, n)
    BY <1>7, <1>17 DEF Ac
  <2>4. StillAt(p, z, z2, n)
    BY <1>13, <2>1, <2>2, <2>3 DEF StillAt, Fk, El, Pc, Arg, Got
  <2>5. CEnter(p, d, z, z2, c, n)
    BY <1>2, <1>3, <1>5, <1>8, <1>9, <1>10, <1>14, <1>15, <2>2, <2>4 DEF CEnter
  <2>6. Ctl(p, d, z2)
    BY <1>1, <1>6, <2>5, EnterControl
  <2>7. ASSUME NEW e \in Edges(p), Up(z2, Src(p, e)) = 1
        PROVE  /\ Up(z, Src(p, e)) = 1 /\ A(z2, e) = A(z, e)
               /\ z2.nd[Src(p, e)].popped[e] = z.nd[Src(p, e)].popped[e]
               /\ K(z2, Src(p, e)) = K(z, Src(p, e))
    <3>1. Src(p, e) \in DOMAIN p
      BY <1>1, EdgeShape
    <3>2. CASE Src(p, e) = n
      BY <1>10, <1>13, <2>1, <2>2, <2>7, <3>2
    <3>3. CASE Src(p, e) # n
      BY <1>10, <1>13, <1>14, <2>7, <3>1, <3>3 DEF StillAt
    <3>4. QED
      BY <3>2, <3>3
  <2>8. Pops(p, z2)
    BY <1>1, <2>7, PopsSame
  <2>9. QED
    BY <1>2, <2>5, <2>6, <2>8 DEF Steady
<1>18. CASE ~ z.nd[n].started
  <2>1. /\ y.started /\ ~ y.done /\ y.queue = <<>> /\ y.local = NewOperator(p[n].op)
        /\ y.popped = [e \in ConsumersOf(p, n) |-> 0]
    BY <1>12, <1>18 DEF IsEntered
  <2>2. /\ K(z2, n) = 0 /\ K(z, n) = 0 /\ En(z2, n) = 0 /\ En(z, n) = 0 /\ Up(z, n) = 0 /\ Up(z2, n) = 1
        /\ Len(<<>>) = 0
    BY <1>13, <1>18, <2>1 DEF K, En, Up
  <2>3. Ac(z2, n) = 1 /\ Ac(z, n) = 0
    BY <1>3, <1>7, <1>16, <1>18 DEF Ac
  <2>4. Pc(z2, n) = FirstPc(p[n].op) /\ Arg(z2, n) = 1 /\ ~ y.local.skip_next_block
    BY <1>13, <2>1 DEF Pc, Arg, NewOperator
  <2>5. El(z2, n) = 1
    BY <2>2 DEF El
  <2>6. Fk(p, z2, n) = 0
    BY <1>13, <2>4, <2>5 DEF Fk
  <2>7. FreshAt(p, z, z2, n)
    BY <2>2, <2>3, <2>4, <2>5, <2>6 DEF FreshAt
  <2>8. CEnter(p, d, z, z2, c, n)
    BY <1>2, <1>3, <1>5, <1>8, <1>9, <1>10, <1>14, <1>15, <2>2, <2>7 DEF CEnter
  <2>9. Ctl(p, d, z2)
    BY <1>1, <1>6, <2>8, EnterControl
  <2>10. ASSUME NEW e \in Edges(p), Up(z2, Src(p, e)) = 1
         PROVE  z2.nd[Src(p, e)].popped[e] =
                  IF A(z2, e) <= K(z2, Src(p, e)) THEN A(z2, e) ELSE K(z2, Src(p, e))
    <3>1. Src(p, e) \in DOMAIN p
      BY <1>1, EdgeShape
    <3>2. CASE Src(p, e) = n
      <4>1. A(z, e) \in Nat /\ K(z, n) \in Nat /\ Edge(p, d, z, e)
        BY <1>1, <2>2, AllKnown DEF KnownEdge, EdgeViewOK, EdgeCtl
      <4>2. A(z, e) = 0
        BY <2>2, <3>2, <4>1 DEF Edge
      <4>3. e \in ConsumersOf(p, n)
        BY <1>1, <1>3, <3>2, ConsumersAreEdges
      <4>4. z2.nd[n].popped[e] = 0
        BY <1>13, <2>1, <4>3
      <4>5. QED
        BY <1>10, <2>2, <3>2, <4>2, <4>4
    <3>3. CASE Src(p, e) # n
      BY <1>1, <1>10, <1>13, <1>14, <2>10, <3>1, <3>3 DEF StillAt, Pops
    <3>4. QED
      BY <3>2, <3>3
  <2>11. Pops(p, z2)
    BY <2>10 DEF Pops
  <2>12. QED
    BY <1>2, <2>8, <2>9, <2>11 DEF Steady
<1>19. QED
  BY <1>16, <1>17, <1>18

PoppedViews(z, z2, n, c) ==
  /\ \A x : x \in On(z2.st) <=> x \in On(z.st) /\ x # n
  /\ \A x : x \in Cal(z2.st) <=> x \in Cal(z.st) /\ x # c
  /\ \A x : x \in Act(z2.st) <=> x \in Act(z.st)
  /\ c = Executor <=> z2.st = <<>>
  /\ c # Executor => z2.st # <<>> /\ TopOf(z2.st).node = c[1] /\ TopOf(z2.st).inside

LEMMA ReturnViews ==
  ASSUME NEW p, NEW z, NEW z2, NEW n, NEW c, NEW o, Good(p, z),
         ReturnStep(p, z.nd, z.st, z2.nd, z2.st, n, c, o)
  PROVE  PoppedViews(z, z2, n, c)
<1>1. PICK s : s = z.st
  OBVIOUS
<1>2. PICK s2 : s2 = z2.st
  OBVIOUS
<1>3. PICK f : f = s[Len(s)]
  OBVIOUS
<1>4. /\ IsPlan(p) /\ StackOK(p, z.nd, s) /\ s # <<>> /\ f.node = n /\ f.consumer = c /\ ~ f.inside
      /\ s2 = SubSeq(s, 1, Len(s) - 1)
  BY <1>1, <1>2, <1>3 DEF Good, Good0, ReturnStep, Waits, TopOf
<1>5. TopPopped(s, s2, f)
  BY <1>3, <1>4, PopViews
<1>6. QED
  BY <1>1, <1>2, <1>4, <1>5 DEF TopPopped, PoppedViews, TopOf

\* Node x after a return.
NodeReturned(p, z, z2, c, o, x) ==
  /\ z2.nd[x].started = z.nd[x].started /\ z2.nd[x].done = z.nd[x].done
  /\ z2.nd[x].skip = z.nd[x].skip /\ z2.nd[x].exception = z.nd[x].exception
  /\ z2.nd[x].queue = z.nd[x].queue /\ z2.nd[x].buffer = z.nd[x].buffer
  /\ z2.nd[x].local = IF c # Executor /\ x = c[1] THEN o ELSE z.nd[x].local
  /\ \A e \in ConsumersOf(p, x) :
       z2.nd[x].popped[e] = IF e = c /\ z.nd[x].popped[c] # Len(z.nd[x].queue)
                            THEN z.nd[x].popped[c] + 1 ELSE z.nd[x].popped[e]

LEMMA ReturnedNodes ==
  ASSUME NEW p, NEW z, NEW z2, NEW n, NEW c, NEW o, Good(p, z),
         ReturnStep(p, z.nd, z.st, z2.nd, z2.st, n, c, o), NEW x \in DOMAIN p
  PROVE  NodeReturned(p, z, z2, c, o, x)
<1>1. /\ n \in DOMAIN p /\ c \in Edges(p) /\ n = Src(p, c) /\ c \in ConsumersOf(p, n)
      /\ NodeOK(p, n, z.nd[n]) /\ z.nd[n].started
      /\ z2.nd[n] = Popped(z.nd, n, c)
      /\ c # Executor => /\ c[1] \in DOMAIN p /\ n # c[1] /\ n < c[1]
                         /\ z2.nd[c[1]] = [z.nd[c[1]] EXCEPT !.local = o]
      /\ \A y \in DOMAIN p : y # n /\ y # c[1] => z2.nd[y] = z.nd[y]
  BY ReturnNodes DEF Good
<1>2. IsPlan(p) /\ Shape(p, z.nd)
  BY DEF Good, Good0
<1>3. \A e \in ConsumersOf(p, x) : Src(p, e) = x
  BY <1>2, ConsumersAreEdges
<1>4. CASE x = n
  <2>1. PICK y : y = Popped(z.nd, n, c)
    OBVIOUS
  <2>2. /\ y.started = z.nd[n].started /\ y.done = z.nd[n].done
        /\ y.skip = z.nd[n].skip /\ y.exception = z.nd[n].exception
        /\ y.queue = z.nd[n].queue /\ y.buffer = z.nd[n].buffer
        /\ y.local = z.nd[n].local
        /\ \A e \in ConsumersOf(p, n) :
             y.popped[e] = IF e = c /\ z.nd[n].popped[c] # Len(z.nd[n].queue)
                           THEN z.nd[n].popped[c] + 1 ELSE z.nd[n].popped[e]
    <3>1. z.nd[n] \in NodeType(p, n) /\ z.nd[n].popped \in [ConsumersOf(p, n) -> Nat]
      BY <1>1, NodeParts DEF NodeOK
    <3>2. CASE z.nd[n].popped[c] = Len(z.nd[n].queue)
      BY <2>1, <3>2 DEF Popped
    <3>3. CASE z.nd[n].popped[c] # Len(z.nd[n].queue)
      <4>1. PICK w : w = [z.nd[n].popped EXCEPT ![c] = z.nd[n].popped[c] + 1]
        OBVIOUS
      <4>2. y = [z.nd[n] EXCEPT !.popped = w]
        BY <2>1, <3>3, <4>1 DEF Popped
      <4>3. /\ y.started = z.nd[n].started /\ y.done = z.nd[n].done
            /\ y.skip = z.nd[n].skip /\ y.exception = z.nd[n].exception
            /\ y.queue = z.nd[n].queue /\ y.buffer = z.nd[n].buffer
            /\ y.local = z.nd[n].local /\ y.popped = w
        BY <3>1, <4>2 DEF NodeType
      <4>4. \A e \in ConsumersOf(p, n) : w[e] = IF e = c THEN z.nd[n].popped[c] + 1 ELSE z.nd[n].popped[e]
        BY <1>1, <3>1, <4>1
      <4>5. QED
        BY <3>3, <4>3, <4>4
    <3>4. QED
      BY <3>2, <3>3
  <2>3. ~ (c # Executor /\ x = c[1])
    BY <1>1, <1>4
  <2>4. z2.nd[x] = y /\ z.nd[x] = z.nd[n]
    BY <1>1, <1>4, <2>1
  <2>5. QED
    BY <1>4, <2>2, <2>3, <2>4 DEF NodeReturned
<1>5. CASE x # n /\ c # Executor /\ x = c[1]
  <2>1. z.nd[x] \in NodeType(p, x) /\ z2.nd[x] = [z.nd[x] EXCEPT !.local = o]
    BY <1>1, <1>2, <1>5 DEF Shape, NodeOK
  <2>2. PICK y : y = [z.nd[x] EXCEPT !.local = o]
    OBVIOUS
  <2>3. /\ y.started = z.nd[x].started /\ y.done = z.nd[x].done
        /\ y.skip = z.nd[x].skip /\ y.exception = z.nd[x].exception
        /\ y.queue = z.nd[x].queue /\ y.buffer = z.nd[x].buffer
        /\ y.local = o /\ y.popped = z.nd[x].popped
    BY <2>1, <2>2 DEF NodeType
  <2>4. \A e \in ConsumersOf(p, x) : e # c
    BY <1>1, <1>3, <1>5
  <2>5. QED
    BY <1>5, <2>1, <2>2, <2>3, <2>4 DEF NodeReturned
<1>6. CASE x # n /\ (c = Executor \/ x # c[1])
  <2>1. x # c[1]
    BY <1>2, <1>6, PlanShape DEF Executor
  <2>2. z2.nd[x] = z.nd[x]
    BY <1>1, <1>6, <2>1
  <2>3. \A e \in ConsumersOf(p, x) : e # c
    BY <1>1, <1>3, <1>6
  <2>4. QED
    BY <1>6, <2>2, <2>3 DEF NodeReturned
<1>7. QED
  BY <1>4, <1>5, <1>6

LEMMA ReturnLink ==
  ASSUME NEW p, NEW d, NEW z, NEW z2, NEW n, NEW c, NEW o, NEW rows, Steady(p, d, z),
         ReturnStep(p, z.nd, z.st, z2.nd, z2.st, n, c, o),
         rows \in BOOLEAN, rows <=> RowsReturned(z.nd, n, c),
         c # Executor => ReceivedIs(p, c[1], rows, z.nd[c[1]].local, o) /\ z2.pc = z.pc,
         c = Executor /\ ~ rows => z2.pc # "call",
         z2.a = [z.a EXCEPT ![c] = z.a[c] + 1], z2.r = z.r, z2.go = z.go
  PROVE  Steady(p, d, z2) /\ CReturn(p, z, z2, n, c, IF rows THEN 1 ELSE 0)
<1>1. /\ Ctl(p, d, z) /\ Pops(p, z) /\ Good(p, z) /\ Good0(p, z.nd, z.st) /\ IsPlan(p) /\ Shape(p, z.nd)
      /\ z.a \in [Edges(p) -> Nat] /\ z.r \in [Edges(p) -> Nat] /\ Waits(z.st, n, c)
      /\ z.nd[n].popped[c] = Len(z.nd[n].queue) => z.nd[n].done
  BY DEF Steady, Ctl, Good, Good0, ReturnStep
<1>2. /\ n \in DOMAIN p /\ c \in Edges(p) /\ n = Src(p, c) /\ c \in ConsumersOf(p, n)
      /\ NodeOK(p, n, z.nd[n]) /\ z.nd[n].started
      /\ c # Executor => c[1] \in DOMAIN p /\ n # c[1]
      /\ \A x \in DOMAIN p : NodeReturned(p, z, z2, c, o, x)
  <2>1. \A x \in DOMAIN p : NodeReturned(p, z, z2, c, o, x)
    BY <1>1, ReturnedNodes
  <2>2. /\ n \in DOMAIN p /\ c \in Edges(p) /\ n = Src(p, c) /\ c \in ConsumersOf(p, n)
        /\ NodeOK(p, n, z.nd[n]) /\ z.nd[n].started /\ n \in Nat
    BY <1>1, TopTyped, PlanShape DEF Waits
  <2>3. c # Executor => c[1] \in DOMAIN p /\ n # c[1]
    BY <1>1, <2>2, EdgeShape
  <2>4. QED
    BY <2>1, <2>2, <2>3
<1>3. Good(p, z2)
  <2>1. c # Executor => LocalOK(p, c[1], o)
    BY DEF ReceivedIs
  <2>2. Good0(p, z2.nd, z2.st)
    BY <1>1, <2>1, ReturnGood
  <2>3. z2.a \in [Edges(p) -> Nat]
    BY <1>1, <1>2
  <2>4. QED
    BY <1>1, <2>2, <2>3 DEF Good
<1>4. PoppedViews(z, z2, n, c)
  BY <1>1, ReturnViews
<1>5. TopIs(p, z, n) /\ Ca(z, c) = 1 /\ Ac(z, n) = 0
  BY <1>1, TopIsTop DEF Waits, Ac
<1>6. ON(z2) = ON(z) \ {n} /\ Ca(z2, c) = 0 /\ \A e \in Edges(p) : e # c => Ca(z2, e) = Ca(z, e)
  BY <1>4 DEF PoppedViews, ON, Ca
<1>7. A(z2, c) = A(z, c) + 1 /\ \A e \in Edges(p) : e # c => A(z2, e) = A(z, e)
  BY <1>1, <1>2 DEF A
<1>8. \A e \in Edges(p) : R(z2, e) = R(z, e)
  BY DEF R
<1>9. ASSUME NEW x \in DOMAIN p
      PROVE  KeptAt(p, z, z2, x) /\ (x # c[1] => SameAt(p, z, z2, x))
  <2>1. /\ z2.nd[x].started = z.nd[x].started /\ z2.nd[x].done = z.nd[x].done
        /\ z2.nd[x].skip = z.nd[x].skip /\ z2.nd[x].queue = z.nd[x].queue
        /\ z2.nd[x].local = IF c # Executor /\ x = c[1] THEN o ELSE z.nd[x].local
    BY <1>2 DEF NodeReturned
  <2>2. Up(z2, x) = Up(z, x) /\ K(z2, x) = K(z, x) /\ En(z2, x) = En(z, x) /\ Sk(z2, x) = Sk(z, x)
    BY <2>1 DEF Up, K, En, Sk
  <2>3. El(z2, x) = El(z, x)
    BY <2>1, <2>2 DEF El
  <2>4. Ac(z2, x) = Ac(z, x)
    BY <1>4 DEF PoppedViews, Ac
  <2>5. z2.nd[x].local.skip_next_block = z.nd[x].local.skip_next_block
    BY <2>1 DEF ReceivedIs
  <2>6. Fk(p, z2, x) = Fk(p, z, x)
    BY <2>3, <2>5 DEF Fk
  <2>7. x # c[1] => SameAt(p, z, z2, x)
    BY <2>1, <2>2, <2>3, <2>6 DEF SameAt, Pc, Arg, Got
  <2>8. QED
    BY <2>2, <2>3, <2>4, <2>6, <2>7 DEF KeptAt
<1>10. /\ K(z, n) = Len(z.nd[n].queue) /\ Up(z, n) = 1 /\ A(z, c) \in Nat /\ K(z, n) \in Nat
       /\ z.nd[n].queue \in Seq(BOOLEAN)
       /\ z.nd[n].popped[c] = IF A(z, c) <= K(z, n) THEN A(z, c) ELSE K(z, n)
  <2>1. K(z, n) = Len(z.nd[n].queue) /\ Up(z, n) = 1
    BY <1>2 DEF K, Up
  <2>2. A(z, c) \in Nat /\ K(z, n) \in Nat
    BY <1>1, <1>2, AllKnown DEF KnownEdge, EdgeViewOK, Known, NodeViewOK
  <2>3. z.nd[n].queue \in Seq(BOOLEAN)
    BY <1>2, NodeParts
  <2>4. z.nd[n].popped[c] = IF A(z, c) <= K(z, n) THEN A(z, c) ELSE K(z, n)
    BY <1>1, <1>2, <2>1 DEF Pops
  <2>5. QED
    BY <2>1, <2>2, <2>3, <2>4
<1>11. A(z, c) >= K(z, n) <=> z.nd[n].popped[c] = Len(z.nd[n].queue)
  BY <1>10
<1>12. A(z, c) >= K(z, n) => En(z, n) = 1
  BY <1>1, <1>2, <1>11 DEF En
<1>13. A(z, c) < K(z, n) => K(z, n) = A(z, c) + 1
  <2>1. Edge(p, d, z, c) /\ Pace(d, z, n) /\ R(z, d[n]) \in Nat /\ Ac(z, n) \in {0, 1}
    BY <1>1, <1>2, AllKnown DEF KnownEdge, EdgeCtl, Known, NodeCtl, NodeViewOK
  <2>2. QED
    BY <1>2, <1>5, <1>10, <2>1 DEF Edge, Pace
<1>14. PICK b : b = IF rows THEN 1 ELSE 0
  OBVIOUS
<1>15. rows <=> A(z, c) < K(z, n) /\ Sk(z, n) = 0 /\ El(z, n) = 1
  <2>1. CASE A(z, c) >= K(z, n)
    <3>1. ~ rows
      BY <1>11, <2>1 DEF RowsReturned
    <3>2. QED
      BY <1>10, <2>1, <3>1
  <2>2. CASE A(z, c) < K(z, n)
    <3>1. z.nd[n].popped[c] + 1 = K(z, n) /\ z.nd[n].popped[c] # Len(z.nd[n].queue) /\ K(z, n) > 0
      BY <1>10, <1>13, <2>2
    <3>2. rows <=> ~ z.nd[n].skip /\ z.nd[n].queue[K(z, n)]
      BY <3>1 DEF RowsReturned
    <3>3. Sk(z, n) = 0 <=> ~ z.nd[n].skip
      BY DEF Sk
    <3>4. El(z, n) = 1 <=> z.nd[n].queue[K(z, n)]
      BY <3>1 DEF El
    <3>5. QED
      BY <2>2, <3>2, <3>3, <3>4
  <2>3. QED
    BY <1>10, <2>1, <2>2
<1>16. b \in {0, 1} /\ (b = 1 <=> A(z, c) < K(z, n) /\ Sk(z, n) = 0 /\ El(z, n) = 1)
  BY <1>14, <1>15
<1>17. c # Executor => TopIs(p, z2, c[1]) /\ Takes(p, z, z2, c[1], c[2], b) /\ z2.pc = z.pc
  <2> HAVE c # Executor
  <2>1. TopIs(p, z2, c[1])
    BY <1>3, <1>4, TopIsTop DEF PoppedViews
  <2>2. PICK m \in DOMAIN p : m = c[1]
    BY <1>2
  <2>3. PICK i : i = c[2]
    OBVIOUS
  <2>4. PICK q : q = z.nd[m].local
    OBVIOUS
  <2>5. z2.nd[m].local = o
    BY <1>2, <2>2 DEF NodeReturned
  <2>6. LocalOK(p, m, q) /\ q.pc \in AskingPcs /\ i = q.arg /\ p[m].op # "source"
    <3>1. LocalOK(p, m, q) /\ q.pc \in AskingPcs /\ i = q.arg
      BY <1>1, <2>2, <2>3, <2>4, CallerAsks
    <3>2. p[m].op # "source"
      BY <3>1 DEF LocalOK, Pcs, AskingPcs
    <3>3. QED
      BY <3>1, <3>2
  <2>7. ReceivedIs(p, m, rows, q, o)
    BY <2>2, <2>4
  <2>8. q.got \in [1 .. 2 -> BOOLEAN] /\ i \in 1 .. 2 /\ i <= Arity(p, m) /\ Arity(p, m) \in 0 .. 2
        /\ p[m].op \in {"source", "linear", "filter", "append"}
    BY <1>1, <2>6, LocalParts, PlanArity, PlanShape DEF LocalOK
  <2>9. \A j \in 1 .. 2 : j # i => Got(z2, m, j) = Got(z, m, j)
    <3>1. \A j \in 1 .. 2 : j # i => o.got[j] = q.got[j]
      BY <2>6, <2>7, <2>8 DEF ReceivedIs
    <3>2. QED
      BY <2>4, <2>5, <3>1 DEF Got
  <2>10. q.pc # "skip_left" => Got(z2, m, i) = b
    <3>1. q.pc # "skip_left" => (o.got[i] <=> rows)
      BY <2>6, <2>7, <2>8 DEF ReceivedIs
    <3>2. QED
      BY <1>14, <2>5, <3>1 DEF Got
  <2>11. Pc(z, m) = q.pc /\ Pc(z2, m) = o.pc /\ Arg(z2, m) = o.arg
    BY <2>4, <2>5 DEF Pc, Arg
  <2>12. q.pc \in Pcs(p[m].op) /\ LocalOK(p, m, o)
    BY <2>6, <2>7 DEF LocalOK, ReceivedIs
  <2>13. Takes(p, z, z2, m, i, b)
    <3>1. CASE p[m].op = "append"
      <4>1. q.pc # "skip_left"
        BY <2>12, <3>1 DEF Pcs
      <4>2. QED
        BY <2>6, <2>7, <2>9, <2>10, <2>11, <3>1, <4>1 DEF Takes, ReceivedIs
    <3>2. CASE p[m].op = "linear"
      <4>1. q.pc # "skip_left"
        BY <2>12, <3>2 DEF Pcs
      <4>2. i < Arity(p, m) \/ i = Arity(p, m)
        BY <2>8
      <4>3. QED
        BY <2>6, <2>7, <2>9, <2>10, <2>11, <3>2, <4>1, <4>2 DEF Takes, ReceivedIs
    <3>3. CASE p[m].op = "filter"
      <4>1. q.pc \in {"first_left", "first_right", "right", "left", "skip_left"}
        BY <2>6, <2>12, <3>3 DEF Pcs, AskingPcs
      <4>2. /\ q.pc = "first_left" => o.pc = "first_right" /\ o.arg = 2
            /\ q.pc = "first_right" => o.pc = "first"
            /\ q.pc = "right" => o.pc = "test" /\ o.arg = 1
            /\ q.pc = "left" => o.pc = "check"
            /\ q.pc = "skip_left" => o.pc = "right" /\ o.arg = 2
        BY <2>7, <2>12 DEF ReceivedIs, LocalOK
      <4>3. q.pc \in {"first_right", "left"} => o.arg = 1
        BY <2>7, <3>3 DEF ReceivedIs
      <4>4. QED
        BY <2>9, <2>10, <2>11, <3>3, <4>1, <4>2, <4>3 DEF Takes
    <3>4. QED
      BY <2>6, <2>8, <3>1, <3>2, <3>3
  <2>14. QED
    BY <2>1, <2>2, <2>3, <2>13
<1>18. c = Executor => ON(z2) = {} /\ (b = 0 => z2.pc # "call")
  BY <1>4, <1>14 DEF PoppedViews, ON, On
<1>19. CReturn(p, z, z2, n, c, b)
  BY <1>2, <1>5, <1>6, <1>7, <1>8, <1>9, <1>12, <1>16, <1>17, <1>18 DEF CReturn
<1>20. Ctl(p, d, z2)
  BY <1>1, <1>3, <1>19, ReturnControl
<1>21. ASSUME NEW e \in Edges(p), Up(z2, Src(p, e)) = 1
       PROVE  z2.nd[Src(p, e)].popped[e] =
                IF A(z2, e) <= K(z2, Src(p, e)) THEN A(z2, e) ELSE K(z2, Src(p, e))
  <2>1. PICK x \in DOMAIN p : x = Src(p, e)
    BY <1>1, EdgeShape
  <2>2. e \in ConsumersOf(p, x)
    BY <1>1, <2>1, ConsumersAreEdges
  <2>3. z2.nd[x].popped[e] = IF e = c /\ z.nd[x].popped[c] # Len(z.nd[x].queue)
                             THEN z.nd[x].popped[c] + 1 ELSE z.nd[x].popped[e]
    BY <1>2, <2>2 DEF NodeReturned
  <2>4. Up(z, x) = 1 /\ K(z2, x) = K(z, x)
    BY <1>9, <1>21, <2>1 DEF KeptAt
  <2>5. CASE e = c
    BY <1>2, <1>7, <1>10, <1>11, <2>1, <2>3, <2>4, <2>5
  <2>6. CASE e # c
    BY <1>1, <1>7, <2>1, <2>3, <2>4, <2>6 DEF Pops
  <2>7. QED
    BY <2>5, <2>6
<1>22. Pops(p, z2)
  BY <1>21 DEF Pops
<1>23. QED
  BY <1>14, <1>19, <1>20, <1>22 DEF Steady

-----------------------------------------------------------------------------
(* What the operators do, case by case.                                    *)

\* The block that node n has read from its input i.
Blk(p, nd, n, i) == nd[p[n].in[i]].buffer

NoneGot(p, nd, n) == \A i \in 1 .. Arity(p, n) : ~ nd[n].local.got[i]
AllGot(p, nd, n) == \A i \in 1 .. Arity(p, n) : nd[n].local.got[i]
SameLengths(p, nd, n) == \A i \in 1 .. Arity(p, n) : Len(Blk(p, nd, n, i)) = Len(Blk(p, nd, n, 1))

Applied(p, nd, n) ==
  [j \in DOMAIN Blk(p, nd, n, 1) |->
     IF \A i \in 1 .. Arity(p, n) : RowAt(Blk(p, nd, n, i), j) = Blk(p, nd, n, 1)[j]
     THEN Blk(p, nd, n, 1)[j] ELSE 0]

\* The operator of n returns or throws.
EndCase(p, nd, go, n, why) ==
  \/ p[n].op = "source" /\ nd[n].local.start = NumRows /\ why = "none"
  \/ p[n].op = "source" /\ why = "failed"
  \/ p[n].op = "linear" /\ nd[n].local.pc = "apply" /\ why = "failed"
  \/ ~ go /\ why = "canceled"
  \/ p[n].op = "linear" /\ nd[n].local.pc = "apply" /\ NoneGot(p, nd, n) /\ why = "none"
  \/ p[n].op = "filter" /\ nd[n].local.pc = "first" /\ NoneGot(p, nd, n) /\ why = "none"
  \/ /\ p[n].op = "linear" /\ nd[n].local.pc = "apply"
     /\ ~ NoneGot(p, nd, n) /\ ~ (AllGot(p, nd, n) /\ SameLengths(p, nd, n)) /\ why = "assert"
  \/ /\ p[n].op = "filter" /\ nd[n].local.pc \in {"first", "check"}
     /\ ~ NoneGot(p, nd, n) /\ ~ (AllGot(p, nd, n) /\ SameLengths(p, nd, n)) /\ why = "assert"
  \/ /\ p[n].op \in {"filter", "append"} /\ why = "none"
     /\ nd[n].local.pc = "end" \/ (nd[n].local.pc = "tail" /\ nd[n].local.outidx = 0)

\* It has the next row of block b to copy, and room for it.
Copies(nd, n, b) == nd[n].local.row \in 1 .. Len(b) /\ nd[n].local.outidx + 1 \in 1 .. BlockSize

\* It emits an element e with the buffer b.
SinkCase(p, mask, nd, n, e, b, o) ==
  LET q == nd[n].local
  IN  /\ LocalOK(p, n, o) /\ Len(b) <= BlockSize
      /\ \/ /\ p[n].op = "source" /\ q.start # NumRows /\ e
            /\ b = SourceBlock(nd[n]) /\ o = [q EXCEPT !.start = SourceEnd(q)]
         \/ /\ p[n].op = "linear" /\ q.pc = "apply" /\ e
            /\ AllGot(p, nd, n) /\ SameLengths(p, nd, n) /\ b = Applied(p, nd, n) /\ o = q
         \/ p[n].op = "linear" /\ q.pc = "fake" /\ ~ e /\ b = nd[n].buffer /\ o = q
         \/ /\ p[n].op = "filter" /\ q.pc = "rows" /\ e /\ Copies(nd, n, Blk(p, nd, n, 1))
            /\ RowAt(Blk(p, nd, n, 2), q.row) \in mask /\ q.outidx + 1 = BlockSize
            /\ b = Filled(nd[n], Blk(p, nd, n, 1)) /\ o = RowEmitted(q)
         \/ /\ p[n].op = "append" /\ q.pc = "copy" /\ e /\ Copies(nd, n, Blk(p, nd, n, q.arg))
            /\ q.got[q.arg] /\ q.outidx + 1 = BlockSize
            /\ b = Filled(nd[n], Blk(p, nd, n, q.arg)) /\ o = RowEmitted(q)
         \/ /\ p[n].op \in {"filter", "append"} /\ q.pc = "tail" /\ e /\ q.outidx > 0
            /\ b = Resize(nd[n].buffer, q.outidx) /\ o = [q EXCEPT !.pc = "end"]

\* A filter goes on, and its buffer is b.
FilterCase(p, mask, nd, n, b, o) ==
  LET q == nd[n].local
  IN  \/ /\ q.pc = "check" /\ NoneGot(p, nd, n) /\ b = nd[n].buffer /\ o = [q EXCEPT !.pc = "tail"]
      \/ /\ q.pc \in {"first", "check"} /\ AllGot(p, nd, n) /\ SameLengths(p, nd, n)
         /\ b = nd[n].buffer /\ o = [q EXCEPT !.pc = "rows", !.row = 1]
      \/ /\ q.pc = "rows" /\ q.row > Len(Blk(p, nd, n, 1))
         /\ b = nd[n].buffer /\ o = [q EXCEPT !.pc = "right", !.arg = 2]
      \/ /\ q.pc = "rows" /\ Copies(nd, n, Blk(p, nd, n, 1))
         /\ RowAt(Blk(p, nd, n, 2), q.row) \notin mask /\ b = nd[n].buffer /\ o = RowPassed(q)
      \/ /\ q.pc = "rows" /\ Copies(nd, n, Blk(p, nd, n, 1))
         /\ RowAt(Blk(p, nd, n, 2), q.row) \in mask /\ q.outidx + 1 # BlockSize
         /\ b = Filled(nd[n], Blk(p, nd, n, 1)) /\ o = RowKept(q)
      \/ q.pc = "test" /\ b = nd[n].buffer /\ o = [q EXCEPT !.pc = "left"]
      \/ /\ q.pc = "test" /\ q.got[2] /\ b = nd[n].buffer /\ o = [q EXCEPT !.pc = "skip_left"]
         /\ \A j \in DOMAIN Blk(p, nd, n, 2) : Blk(p, nd, n, 2)[j] \notin mask

\* An append goes on.
AppendCase(p, nd, n, b, o) ==
  LET q == nd[n].local
  IN  /\ q.pc = "copy"
      /\ \/ ~ q.got[q.arg] /\ q.arg = 2 /\ b = nd[n].buffer /\ o = [q EXCEPT !.pc = "tail"]
         \/ /\ ~ q.got[q.arg] /\ q.arg = 1 /\ b = nd[n].buffer
            /\ o = [q EXCEPT !.pc = "get", !.arg = 2]
         \/ /\ q.got[q.arg] /\ q.row > Len(Blk(p, nd, n, q.arg)) /\ b = nd[n].buffer
            /\ o = [q EXCEPT !.pc = "get"]
         \/ /\ q.got[q.arg] /\ Copies(nd, n, Blk(p, nd, n, q.arg)) /\ q.outidx + 1 # BlockSize
            /\ b = Filled(nd[n], Blk(p, nd, n, q.arg)) /\ o = RowKept(q)

LocalCase(p, mask, nd, n, b, o) ==
  /\ LocalOK(p, n, o) /\ Len(b) <= BlockSize
  /\ \/ p[n].op = "filter" /\ FilterCase(p, mask, nd, n, b, o)
     \/ p[n].op = "append" /\ AppendCase(p, nd, n, b, o)

OperatorEnds(p, nd, st, nd2, st2, go, n) ==
  \E why \in Exceptions : EndCase(p, nd, go, n, why) /\ EndStep(nd, st, nd2, st2, n, why)
OperatorSinks(p, mask, nd, st, nd2, st2, n) ==
  \E e \in BOOLEAN, b \in Seq(0 .. NumRows) : \E o :
    SinkCase(p, mask, nd, n, e, b, o) /\ SinkStep(nd, st, nd2, st2, n, e, b, o)
OperatorMoves(p, mask, nd, st, nd2, st2, n) ==
  \E b \in Seq(0 .. NumRows) : \E o :
    LocalCase(p, mask, nd, n, b, o) /\ LocalStep(nd, st, nd2, st2, n, b, o)
OperatorCalls(p, nd, st, nd2, st2, go, n) ==
  \E c \in Edges(p), k \in BOOLEAN :
    go /\ c # Executor /\ c[1] = n /\ EnterStep(p, nd, st, nd2, st2, c, k)

\* One step of the operator of n.
OperatorCase(p, mask, nd, st, nd2, st2, go, n) ==
  \/ OperatorEnds(p, nd, st, nd2, st2, go, n)
  \/ OperatorSinks(p, mask, nd, st, nd2, st2, n)
  \/ OperatorMoves(p, mask, nd, st, nd2, st2, n)
  \/ OperatorCalls(p, nd, st, nd2, st2, go, n)

\* What the action of an operator is.
OperatorDoes(n) ==
  /\ Untouched /\ env'.canceled = env.canceled
  /\ OperatorCase(plan.nodes, plan.mask, node, stack, node', stack', ~ env.canceled, n)

LEMMA DoesEnd ==
  ASSUME Typed, NEW n, InCoroutine(n), NEW why \in Exceptions, Ends(n, why),
         env'.canceled = env.canceled, EndCase(plan.nodes, node, ~ env.canceled, n, why)
  PROVE  OperatorDoes(n)
<1>1. EndStep(node, stack, node', stack', n, why)
  BY EndsKind
<1>2. Untouched
  BY DEF Ends, Untouched
<1>3. QED
  BY <1>1, <1>2 DEF OperatorDoes, OperatorCase, OperatorEnds

LEMMA DoesSink ==
  ASSUME Typed, NEW n, InCoroutine(n), NEW e \in BOOLEAN, NEW b \in Seq(0 .. NumRows), NEW o,
         Sink(n, e, b, o), SinkCase(plan.nodes, plan.mask, node, n, e, b, o)
  PROVE  OperatorDoes(n)
<1>1. SinkStep(node, stack, node', stack', n, e, b, o)
  BY SinkKind
<1>2. Untouched /\ env'.canceled = env.canceled
  BY DEF Sink, Untouched
<1>3. QED
  BY <1>1, <1>2 DEF OperatorDoes, OperatorCase, OperatorSinks

LEMMA DoesGoto ==
  ASSUME Typed, NEW n, InCoroutine(n), NEW o, Goto(n, o), n \in DOMAIN plan.nodes,
         LocalCase(plan.nodes, plan.mask, node, n, node[n].buffer, o)
  PROVE  OperatorDoes(n)
<1>1. LocalStep(node, stack, node', stack', n, node[n].buffer, o)
  BY GotoKind
<1>2. Untouched /\ env'.canceled = env.canceled
  BY DEF Goto, Untouched
<1>3. node[n].buffer \in Seq(0 .. NumRows)
  BY NodeParts DEF Typed, Good0, Shape
<1>4. QED
  BY <1>1, <1>2, <1>3 DEF OperatorDoes, OperatorCase, OperatorMoves

LEMMA DoesFill ==
  ASSUME Typed, NEW n, InCoroutine(n), NEW o, NEW b \in Seq(0 .. NumRows),
         node' = [node EXCEPT ![n].buffer = b, ![n].local = o], stack' = stack,
         UNCHANGED <<plan, exec, last, env>>,
         LocalCase(plan.nodes, plan.mask, node, n, b, o)
  PROVE  OperatorDoes(n)
<1>1. LocalStep(node, stack, node', stack', n, b, o)
  BY FillKind
<1>2. Untouched /\ env'.canceled = env.canceled
  BY DEF Untouched
<1>3. QED
  BY <1>1, <1>2 DEF OperatorDoes, OperatorCase, OperatorMoves

LEMMA DoesCall ==
  ASSUME Typed, NEW n, InCoroutine(n), NEW i, NEW k \in BOOLEAN, CallInput(n, i, k),
         i = node[n].local.arg, node[n].local.pc \in AskingPcs,
         k = (node[n].local.pc \in SkippingPcs), plan.nodes[n].op # "source"
  PROVE  OperatorDoes(n)
<1>1. Untouched /\ env'.canceled = env.canceled
  BY CallKind DEF Untouched
<1>2. CASE env.canceled /\ EndStep(node, stack, node', stack', n, "canceled")
  <2>1. EndCase(plan.nodes, node, ~ env.canceled, n, "canceled")
    BY <1>2 DEF EndCase
  <2>2. "canceled" \in Exceptions
    BY DEF Exceptions
  <2>3. QED
    BY <1>1, <1>2, <2>1, <2>2 DEF OperatorDoes, OperatorCase, OperatorEnds
<1>3. CASE /\ ~ env.canceled /\ <<n, i>> \in Edges(plan.nodes) /\ <<n, i>> # Executor
           /\ EnterStep(plan.nodes, node, stack, node', stack', <<n, i>>, k)
  <2>1. PICK c \in Edges(plan.nodes) : c = <<n, i>>
    BY <1>3
  <2>2. c # Executor /\ c[1] = n /\ EnterStep(plan.nodes, node, stack, node', stack', c, k)
    BY <1>3, <2>1
  <2>3. OperatorCalls(plan.nodes, node, stack, node', stack', ~ env.canceled, n)
    BY <1>3, <2>2 DEF OperatorCalls
  <2>4. QED
    BY <1>1, <2>3 DEF OperatorDoes, OperatorCase
<1>4. QED
  BY <1>2, <1>3, CallKind

\* The blocks, as the model and as this module name them.
LEMMA SameBlocks ==
  ASSUME NEW n \in DOMAIN plan.nodes
  PROVE  /\ \A i : Block(n, i) = Blk(plan.nodes, node, n, i)
         /\ num_inputs(n) = Arity(plan.nodes, n)
BY DEF Block, Blk, InputOf, num_inputs, Arity

LEMMA GetsAre ==
  ASSUME Typed, NEW n \in DOMAIN plan.nodes, plan.nodes[n].op \in {"linear", "filter"}
  PROVE  /\ Gets(n) = {FALSE} <=> NoneGot(plan.nodes, node, n)
         /\ Gets(n) = {TRUE} <=> AllGot(plan.nodes, node, n)
<1>1. PICK g \in [1 .. 2 -> BOOLEAN] : g = node[n].local.got
  <2>1. LocalOK(plan.nodes, n, node[n].local)
    BY NodeParts DEF Typed, Good0, Shape
  <2>2. QED
    BY <2>1, LocalParts
<1>2. PICK k \in 1 .. 2 : k = Arity(plan.nodes, n)
  BY PlanArity DEF Typed
<1>3. Gets(n) = {g[i] : i \in 1 .. k}
  BY <1>1, <1>2 DEF Gets, num_inputs, Arity
<1>4. \A i \in 1 .. k : g[i] \in BOOLEAN
  BY <1>1, <1>2
<1>5. 1 \in 1 .. k
  BY <1>2
<1>6. ({g[i] : i \in 1 .. k} = {FALSE}) <=> (\A i \in 1 .. k : ~ g[i])
  BY <1>4, <1>5, Zenon
<1>7. ({g[i] : i \in 1 .. k} = {TRUE}) <=> (\A i \in 1 .. k : g[i])
  BY <1>4, <1>5, Zenon
<1>8. QED
  BY <1>1, <1>2, <1>3, <1>6, <1>7 DEF NoneGot, AllGot

LEMMA SourceDoes ==
  ASSUME Typed, NEW n, SourceStep(n)
  PROVE  OperatorDoes(n)
<1>1. At(n, "source", "read")
  BY SourceKinds
<1>2. /\ InCoroutine(n) /\ n \in DOMAIN plan.nodes /\ plan.nodes[n].op = "source"
  BY <1>1, AtTyped
<1>3. CASE /\ node[n].local.start # NumRows
           /\ Sink(n, TRUE, SourceBlock(node[n]),
                   [node[n].local EXCEPT !.start = SourceEnd(node[n].local)])
  <2>1. /\ SourceBlock(node[n]) \in Seq(0 .. NumRows) /\ Len(SourceBlock(node[n])) <= BlockSize
        /\ LocalOK(plan.nodes, n, [node[n].local EXCEPT !.start = SourceEnd(node[n].local)])
    BY <1>2, <1>3, ReadTyped
  <2>2. PICK e \in BOOLEAN : e = TRUE
    OBVIOUS
  <2>3. SinkCase(plan.nodes, plan.mask, node, n, e, SourceBlock(node[n]),
                 [node[n].local EXCEPT !.start = SourceEnd(node[n].local)])
    BY <1>2, <1>3, <2>1, <2>2 DEF SinkCase
  <2>4. QED
    BY <1>2, <1>3, <2>1, <2>2, <2>3, DoesSink
<1>4. CASE node[n].local.start = NumRows /\ Ends(n, "none") /\ UNCHANGED env
  <2>1. EndCase(plan.nodes, node, ~ env.canceled, n, "none") /\ "none" \in Exceptions
    BY <1>2, <1>4 DEF EndCase, Exceptions
  <2>2. QED
    BY <1>2, <1>4, <2>1, DoesEnd
<1>5. QED
  BY <1>3, <1>4, SourceKinds

LEMMA LinearDoes ==
  ASSUME Typed, NEW n, LinearCall(n) \/ LinearApply(n) \/ LinearSkipped(n)
  PROVE  OperatorDoes(n)
<1>1. CASE LinearCall(n)
  <2>1. PICK k \in BOOLEAN : /\ At(n, "linear", IF k THEN "drain" ELSE "get")
                             /\ CallInput(n, node[n].local.arg, k)
    BY <1>1, LinearCallKinds
  <2>2. PICK pc : pc = IF k THEN "drain" ELSE "get"
    OBVIOUS
  <2>3. pc \in AskingPcs /\ k = (pc \in SkippingPcs)
    BY <2>2 DEF AskingPcs, SkippingPcs
  <2>4. InCoroutine(n) /\ node[n].local.pc = pc /\ plan.nodes[n].op = "linear"
    BY <2>1, <2>2, AtTyped
  <2>5. plan.nodes[n].op # "source"
    BY <2>4
  <2>6. QED
    BY <2>1, <2>3, <2>4, <2>5, DoesCall
<1>2. CASE LinearApply(n)
  <2>1. At(n, "linear", "apply")
    BY <1>2 DEF LinearApply
  <2>2. /\ InCoroutine(n) /\ plan.nodes[n].op = "linear" /\ n \in DOMAIN plan.nodes
        /\ LocalOK(plan.nodes, n, node[n].local) /\ node[n].local.pc = "apply"
    BY <2>1, AtTyped
  <2>3. (\A i \in 1 .. num_inputs(n) : Len(Block(n, i)) = Len(Block(n, 1))) <=> SameLengths(plan.nodes, node, n)
    BY <2>2, SameBlocks DEF SameLengths
  <2>4. Apply(n) = Applied(plan.nodes, node, n)
    BY <2>2, SameBlocks DEF Apply, Applied
  <2>5. \/ Gets(n) = {FALSE} /\ Ends(n, "none") /\ UNCHANGED env
        \/ /\ Gets(n) = {TRUE} /\ SameLengths(plan.nodes, node, n)
           /\ Sink(n, TRUE, Apply(n), node[n].local)
        \/ /\ Gets(n) # {FALSE} /\ ~ (Gets(n) = {TRUE} /\ SameLengths(plan.nodes, node, n))
           /\ Ends(n, "assert") /\ UNCHANGED env
    BY <1>2, <2>3 DEF LinearApply, Finish, AssertFails, Emit
  <2>6. CASE Gets(n) = {FALSE} /\ Ends(n, "none") /\ UNCHANGED env
    <3>1. EndCase(plan.nodes, node, ~ env.canceled, n, "none") /\ "none" \in Exceptions
      BY <2>2, <2>6, GetsAre DEF EndCase, Exceptions
    <3>2. QED
      BY <2>2, <2>6, <3>1, DoesEnd
  <2>7. CASE /\ Gets(n) # {FALSE} /\ ~ (Gets(n) = {TRUE} /\ SameLengths(plan.nodes, node, n))
             /\ Ends(n, "assert") /\ UNCHANGED env
    <3>1. EndCase(plan.nodes, node, ~ env.canceled, n, "assert") /\ "assert" \in Exceptions
      BY <2>2, <2>7, GetsAre DEF EndCase, Exceptions
    <3>2. QED
      BY <2>2, <2>7, <3>1, DoesEnd
  <2>8. CASE /\ Gets(n) = {TRUE} /\ SameLengths(plan.nodes, node, n)
             /\ Sink(n, TRUE, Apply(n), node[n].local)
    <3>1. Apply(n) \in Seq(0 .. NumRows) /\ Len(Apply(n)) <= BlockSize
      BY <2>2, ApplyTyped
    <3>2. PICK e \in BOOLEAN : e = TRUE
      OBVIOUS
    <3>3. SinkCase(plan.nodes, plan.mask, node, n, e, Apply(n), node[n].local)
      BY <2>2, <2>4, <2>8, <3>1, <3>2, GetsAre DEF SinkCase
    <3>4. QED
      BY <2>2, <2>8, <3>1, <3>2, <3>3, DoesSink
  <2>9. QED
    BY <2>5, <2>6, <2>7, <2>8
<1>3. CASE LinearSkipped(n)
  <2>1. At(n, "linear", "fake") /\ Sink(n, FALSE, node[n].buffer, node[n].local)
    BY <1>3 DEF LinearSkipped
  <2>2. /\ InCoroutine(n) /\ plan.nodes[n].op = "linear" /\ n \in DOMAIN plan.nodes
        /\ LocalOK(plan.nodes, n, node[n].local) /\ node[n].local.pc = "fake"
        /\ node[n].buffer \in Seq(0 .. NumRows) /\ Len(node[n].buffer) <= BlockSize
    BY <2>1, AtTyped
  <2>3. PICK e \in BOOLEAN : e = FALSE
    OBVIOUS
  <2>4. SinkCase(plan.nodes, plan.mask, node, n, e, node[n].buffer, node[n].local)
    BY <2>2, <2>3 DEF SinkCase
  <2>5. QED
    BY <2>1, <2>2, <2>3, <2>4, DoesSink
<1>4. QED
  BY <1>1, <1>2, <1>3

LEMMA FilterCallDoes ==
  ASSUME Typed, NEW n, FilterCall(n)
  PROVE  OperatorDoes(n)
<1>1. PICK pc \in {"first_left", "first_right", "right", "left", "skip_left"}, k \in BOOLEAN :
            /\ At(n, "filter", pc) /\ k = (pc = "skip_left")
            /\ CallInput(n, node[n].local.arg, k)
  BY FilterCallKinds
<1>2. InCoroutine(n) /\ node[n].local.pc = pc /\ plan.nodes[n].op = "filter"
  BY <1>1, AtTyped
<1>3. node[n].local.pc \in AskingPcs /\ k = (node[n].local.pc \in SkippingPcs) /\ plan.nodes[n].op # "source"
  BY <1>1, <1>2 DEF AskingPcs, SkippingPcs
<1>4. QED
  BY <1>1, <1>2, <1>3, DoesCall

LEMMA FilterTopDoes ==
  ASSUME Typed, NEW n, FilterTop(n)
  PROVE  OperatorDoes(n)
<1>1. PICK pc \in {"first", "check"} : At(n, "filter", pc)
  BY FilterTopKinds
<1>2. /\ InCoroutine(n) /\ LocalOK(plan.nodes, n, node[n].local) /\ plan.nodes[n].op = "filter"
      /\ n \in DOMAIN plan.nodes /\ node[n].local.pc = pc /\ Len(node[n].buffer) <= BlockSize
  BY <1>1, AtTyped
<1>3. Arity(plan.nodes, n) = 2
  BY <1>2, PlanArity DEF Typed
<1>4. (Len(Block(n, 1)) = Len(Block(n, 2))) <=> SameLengths(plan.nodes, node, n)
  BY <1>2, <1>3, SameBlocks DEF SameLengths
<1>5. CASE Gets(n) = {FALSE} /\ At(n, "filter", "first") /\ Ends(n, "none") /\ UNCHANGED env
  <2>1. node[n].local.pc = "first"
    BY <1>5 DEF At
  <2>2. EndCase(plan.nodes, node, ~ env.canceled, n, "none") /\ "none" \in Exceptions
    BY <1>2, <1>5, <2>1, GetsAre DEF EndCase, Exceptions
  <2>3. QED
    BY <1>2, <1>5, <2>2, DoesEnd
<1>6. CASE /\ Gets(n) # {FALSE}
           /\ ~ (Gets(n) = {TRUE} /\ Len(Block(n, 1)) = Len(Block(n, 2)))
           /\ Ends(n, "assert") /\ UNCHANGED env
  <2>1. EndCase(plan.nodes, node, ~ env.canceled, n, "assert") /\ "assert" \in Exceptions
    BY <1>1, <1>2, <1>4, <1>6, GetsAre DEF EndCase, Exceptions
  <2>2. QED
    BY <1>2, <1>6, <2>1, DoesEnd
<1>7. CASE /\ Gets(n) = {FALSE} /\ At(n, "filter", "check")
           /\ Goto(n, [node[n].local EXCEPT !.pc = "tail"])
  <2>1. node[n].local.pc = "check"
    BY <1>7 DEF At
  <2>2. "tail" \in Pcs(plan.nodes[n].op) /\ "tail" \in AllPcs
        /\ "tail" \notin {"first_left", "test", "left", "skip_left", "first_right", "right"}
    BY <1>2 DEF Pcs, AllPcs
  <2>3. LocalOK(plan.nodes, n, [node[n].local EXCEPT !.pc = "tail"])
    BY <1>2, <2>2, SetPcOK
  <2>4. FilterCase(plan.nodes, plan.mask, node, n, node[n].buffer, [node[n].local EXCEPT !.pc = "tail"])
    BY <1>2, <1>7, <2>1, GetsAre DEF FilterCase
  <2>5. LocalCase(plan.nodes, plan.mask, node, n, node[n].buffer, [node[n].local EXCEPT !.pc = "tail"])
    BY <1>2, <2>3, <2>4 DEF LocalCase
  <2>6. QED
    BY <1>2, <1>7, <2>5, DoesGoto
<1>8. CASE /\ Gets(n) = {TRUE} /\ Len(Block(n, 1)) = Len(Block(n, 2))
           /\ Goto(n, [node[n].local EXCEPT !.pc = "rows", !.row = 1])
  <2>1. /\ "rows" \in Pcs(plan.nodes[n].op) /\ "rows" \in AllPcs /\ 1 \in 1 .. (BlockSize + 1)
        /\ "rows" \notin AskingPcs \cup {"test"} /\ 0 \in 0 .. (BlockSize - 1)
    BY <1>2, ConstantTypes DEF Pcs, AllPcs, AskingPcs
  <2>2. LocalOK(plan.nodes, n, [node[n].local EXCEPT !.pc = "rows", !.row = 1])
    BY <1>2, <2>1, SetPcRowOK
  <2>3. FilterCase(plan.nodes, plan.mask, node, n, node[n].buffer,
                   [node[n].local EXCEPT !.pc = "rows", !.row = 1])
    BY <1>1, <1>2, <1>4, <1>8, GetsAre DEF FilterCase
  <2>4. LocalCase(plan.nodes, plan.mask, node, n, node[n].buffer,
                  [node[n].local EXCEPT !.pc = "rows", !.row = 1])
    BY <1>2, <2>2, <2>3 DEF LocalCase
  <2>5. QED
    BY <1>2, <1>8, <2>4, DoesGoto
<1>9. QED
  BY <1>5, <1>6, <1>7, <1>8, FilterTopKinds

LEMMA FilterRowDoes ==
  ASSUME Typed, NEW n, FilterRow(n)
  PROVE  OperatorDoes(n)
<1>1. At(n, "filter", "rows")
  BY FilterRowKinds
<1>2. /\ InCoroutine(n) /\ LocalOK(plan.nodes, n, node[n].local) /\ plan.nodes[n].op = "filter"
      /\ n \in DOMAIN plan.nodes /\ node[n].local.pc = "rows" /\ Len(node[n].buffer) <= BlockSize
  BY <1>1, AtTyped
<1>3. Arity(plan.nodes, n) = 2
  BY <1>2, PlanArity DEF Typed
<1>4. PICK b : b = Block(n, 1)
  OBVIOUS
<1>5. b \in Seq(0 .. NumRows) /\ Len(b) <= BlockSize
  BY <1>2, <1>3, <1>4, BlockTyped
<1>6. node[n].local.pc \notin AskingPcs \cup {"test"}
  BY <1>2 DEF AskingPcs
<1>7. b = Blk(plan.nodes, node, n, 1) /\ Block(n, 2) = Blk(plan.nodes, node, n, 2)
  BY <1>2, <1>4, SameBlocks
<1>8. CASE node[n].local.row > Len(b) /\ Goto(n, [node[n].local EXCEPT !.pc = "right", !.arg = 2])
  <2>1. /\ "right" \in Pcs(plan.nodes[n].op) /\ "right" \in AllPcs /\ 2 \in 1 .. 2
        /\ "right" \notin {"first_left", "test", "left", "skip_left"} /\ 2 <= Arity(plan.nodes, n)
    BY <1>2, <1>3 DEF Pcs, AllPcs
  <2>2. LocalOK(plan.nodes, n, [node[n].local EXCEPT !.pc = "right", !.arg = 2])
    BY <1>2, <1>3, <2>1, SetPcArgOK
  <2>3. LocalCase(plan.nodes, plan.mask, node, n, node[n].buffer,
                  [node[n].local EXCEPT !.pc = "right", !.arg = 2])
    BY <1>2, <1>7, <1>8, <2>2 DEF LocalCase, FilterCase
  <2>4. QED
    BY <1>2, <1>8, <2>3, DoesGoto
<1>9. CASE ~ (node[n].local.row > Len(b))
  <2>1. /\ Filled(node[n], b) \in Seq(0 .. NumRows) /\ Len(Filled(node[n], b)) = BlockSize
        /\ LocalOK(plan.nodes, n, RowPassed(node[n].local)) /\ LocalOK(plan.nodes, n, RowEmitted(node[n].local))
        /\ node[n].local.outidx + 1 # BlockSize => LocalOK(plan.nodes, n, RowKept(node[n].local))
    BY <1>2, <1>5, <1>6, <1>9, RowTyped
  <2>2. Len(Filled(node[n], b)) <= BlockSize
    BY <2>1, ConstantTypes
  <2>3. Copies(node, n, Blk(plan.nodes, node, n, 1))
    BY <1>2, <1>5, <1>6, <1>7, <1>9, RowTyped DEF Copies
  <2>4. CASE RowAt(Block(n, 2), node[n].local.row) \notin plan.mask /\ Goto(n, RowPassed(node[n].local))
    <3>1. LocalCase(plan.nodes, plan.mask, node, n, node[n].buffer, RowPassed(node[n].local))
      BY <1>2, <1>7, <2>1, <2>3, <2>4 DEF LocalCase, FilterCase
    <3>2. QED
      BY <1>2, <2>4, <3>1, DoesGoto
  <2>5. CASE /\ RowAt(Block(n, 2), node[n].local.row) \in plan.mask /\ node[n].local.outidx + 1 = BlockSize
             /\ Sink(n, TRUE, Filled(node[n], b), RowEmitted(node[n].local))
    <3>1. PICK e \in BOOLEAN : e = TRUE
      OBVIOUS
    <3>2. SinkCase(plan.nodes, plan.mask, node, n, e, Filled(node[n], b), RowEmitted(node[n].local))
      BY <1>2, <1>7, <2>1, <2>2, <2>3, <2>5, <3>1 DEF SinkCase
    <3>3. QED
      BY <1>2, <2>1, <2>5, <3>1, <3>2, DoesSink
  <2>6. CASE /\ RowAt(Block(n, 2), node[n].local.row) \in plan.mask /\ node[n].local.outidx + 1 # BlockSize
             /\ node' = [node EXCEPT ![n].buffer = Filled(node[n], b), ![n].local = RowKept(node[n].local)]
             /\ stack' = stack
             /\ UNCHANGED <<plan, exec, last, env>>
    <3>1. LocalCase(plan.nodes, plan.mask, node, n, Filled(node[n], b), RowKept(node[n].local))
      BY <1>2, <1>7, <2>1, <2>2, <2>3, <2>6 DEF LocalCase, FilterCase
    <3>2. QED
      BY <1>2, <2>1, <2>6, <3>1, DoesFill
  <2>7. QED
    BY <1>4, <1>9, <2>4, <2>5, <2>6, FilterRowKinds
<1>10. QED
  BY <1>4, <1>8, <1>9, FilterRowKinds

LEMMA FilterTestDoes ==
  ASSUME Typed, NEW n, FilterTest(n)
  PROVE  OperatorDoes(n)
<1>1. At(n, "filter", "test")
  BY DEF FilterTest
<1>2. PICK pc : pc = IF SkipsLeft(n) THEN "skip_left" ELSE "left"
  OBVIOUS
<1>3. Goto(n, [node[n].local EXCEPT !.pc = pc])
  BY <1>2 DEF FilterTest
<1>4. /\ InCoroutine(n) /\ LocalOK(plan.nodes, n, node[n].local) /\ plan.nodes[n].op = "filter"
      /\ n \in DOMAIN plan.nodes /\ node[n].local.pc = "test" /\ node[n].local.arg = 1
      /\ Len(node[n].buffer) <= BlockSize
  BY <1>1, AtTyped DEF LocalOK
<1>5. pc \in Pcs(plan.nodes[n].op) /\ pc \in AllPcs /\ pc \notin {"first_right", "right"}
  BY <1>2, <1>4 DEF Pcs, AllPcs
<1>6. LocalOK(plan.nodes, n, [node[n].local EXCEPT !.pc = pc])
  BY <1>4, <1>5, SetPcOK
<1>7. SkipsLeft(n) => /\ node[n].local.got[2]
                      /\ \A j \in DOMAIN Blk(plan.nodes, node, n, 2) : Blk(plan.nodes, node, n, 2)[j] \notin plan.mask
  BY <1>4, SameBlocks DEF SkipsLeft, is_all_zero, Selects
<1>8. FilterCase(plan.nodes, plan.mask, node, n, node[n].buffer, [node[n].local EXCEPT !.pc = pc])
  BY <1>2, <1>4, <1>7 DEF FilterCase
<1>9. LocalCase(plan.nodes, plan.mask, node, n, node[n].buffer, [node[n].local EXCEPT !.pc = pc])
  BY <1>4, <1>6, <1>8 DEF LocalCase
<1>10. QED
  BY <1>3, <1>4, <1>9, DoesGoto

LEMMA AppendDoes ==
  ASSUME Typed, NEW n, AppendCall(n) \/ AppendRow(n)
  PROVE  OperatorDoes(n)
<1>1. CASE AppendCall(n)
  <2>1. At(n, "append", "get") /\ CallInput(n, node[n].local.arg, FALSE)
    BY <1>1 DEF AppendCall
  <2>2. InCoroutine(n) /\ node[n].local.pc = "get" /\ plan.nodes[n].op = "append"
    BY <2>1, AtTyped
  <2>3. PICK k \in BOOLEAN : k = FALSE
    OBVIOUS
  <2>4. node[n].local.pc \in AskingPcs /\ k = (node[n].local.pc \in SkippingPcs) /\ plan.nodes[n].op # "source"
    BY <2>2, <2>3 DEF AskingPcs, SkippingPcs
  <2>5. QED
    BY <2>1, <2>2, <2>3, <2>4, DoesCall
<1>2. CASE AppendRow(n)
  <2>1. At(n, "append", "copy")
    BY <1>2, AppendRowKinds
  <2>2. /\ InCoroutine(n) /\ LocalOK(plan.nodes, n, node[n].local) /\ plan.nodes[n].op = "append"
        /\ n \in DOMAIN plan.nodes /\ node[n].local.pc = "copy" /\ Len(node[n].buffer) <= BlockSize
    BY <2>1, AtTyped
  <2>3. Arity(plan.nodes, n) = 2 /\ node[n].local.arg \in 1 .. 2
    BY <2>2, PlanArity DEF Typed, LocalOK, LocalType
  <2>4. PICK b : b = Block(n, node[n].local.arg)
    OBVIOUS
  <2>5. b \in Seq(0 .. NumRows) /\ Len(b) <= BlockSize
    BY <2>2, <2>3, <2>4, BlockTyped
  <2>6. node[n].local.pc \notin AskingPcs \cup {"test"}
    BY <2>2 DEF AskingPcs
  <2>7. /\ "get" \in Pcs(plan.nodes[n].op) /\ "get" \in AllPcs
        /\ "tail" \in Pcs(plan.nodes[n].op) /\ "tail" \in AllPcs
        /\ 2 <= Arity(plan.nodes, n) /\ 2 \in 1 .. 2
        /\ {"get", "tail"} \cap {"first_left", "test", "left", "skip_left", "first_right", "right"} = {}
    BY <2>2, <2>3 DEF Pcs, AllPcs
  <2>8. /\ LocalOK(plan.nodes, n, [node[n].local EXCEPT !.pc = "tail"])
        /\ LocalOK(plan.nodes, n, [node[n].local EXCEPT !.pc = "get"])
    BY <2>2, <2>7, SetPcOK
  <2>9. LocalOK(plan.nodes, n, [node[n].local EXCEPT !.pc = "get", !.arg = 2])
    BY <2>2, <2>7, SetPcArgOK
  <2>10. b = Blk(plan.nodes, node, n, node[n].local.arg)
    BY <2>2, <2>4, SameBlocks
  <2>11. CASE /\ ~ node[n].local.got[node[n].local.arg] /\ node[n].local.arg = 2
              /\ Goto(n, [node[n].local EXCEPT !.pc = "tail"])
    <3>1. LocalCase(plan.nodes, plan.mask, node, n, node[n].buffer, [node[n].local EXCEPT !.pc = "tail"])
      BY <2>2, <2>8, <2>11 DEF LocalCase, AppendCase
    <3>2. QED
      BY <2>2, <2>11, <3>1, DoesGoto
  <2>12. CASE /\ ~ node[n].local.got[node[n].local.arg] /\ node[n].local.arg # 2
              /\ Goto(n, [node[n].local EXCEPT !.pc = "get", !.arg = 2])
    <3>1. node[n].local.arg = 1
      BY <2>3, <2>12
    <3>2. LocalCase(plan.nodes, plan.mask, node, n, node[n].buffer, [node[n].local EXCEPT !.pc = "get", !.arg = 2])
      BY <2>2, <2>9, <2>12, <3>1 DEF LocalCase, AppendCase
    <3>3. QED
      BY <2>2, <2>12, <3>2, DoesGoto
  <2>13. CASE /\ node[n].local.got[node[n].local.arg] /\ node[n].local.row > Len(b)
              /\ Goto(n, [node[n].local EXCEPT !.pc = "get"])
    <3>1. LocalCase(plan.nodes, plan.mask, node, n, node[n].buffer, [node[n].local EXCEPT !.pc = "get"])
      BY <2>2, <2>8, <2>10, <2>13 DEF LocalCase, AppendCase
    <3>2. QED
      BY <2>2, <2>13, <3>1, DoesGoto
  <2>14. CASE ~ (node[n].local.row > Len(b)) /\ node[n].local.got[node[n].local.arg]
    <3>1. /\ Filled(node[n], b) \in Seq(0 .. NumRows) /\ Len(Filled(node[n], b)) = BlockSize
          /\ LocalOK(plan.nodes, n, RowEmitted(node[n].local))
          /\ node[n].local.outidx + 1 # BlockSize => LocalOK(plan.nodes, n, RowKept(node[n].local))
      BY <2>2, <2>5, <2>6, <2>14, RowTyped
    <3>2. Len(Filled(node[n], b)) <= BlockSize
      BY <3>1, ConstantTypes
    <3>3. Copies(node, n, Blk(plan.nodes, node, n, node[n].local.arg))
      BY <2>2, <2>5, <2>6, <2>10, <2>14, RowTyped DEF Copies
    <3>4. CASE node[n].local.outidx + 1 = BlockSize /\ Sink(n, TRUE, Filled(node[n], b), RowEmitted(node[n].local))
      <4>1. PICK e \in BOOLEAN : e = TRUE
        OBVIOUS
      <4>2. SinkCase(plan.nodes, plan.mask, node, n, e, Filled(node[n], b), RowEmitted(node[n].local))
        BY <2>2, <2>10, <2>14, <3>1, <3>2, <3>3, <3>4, <4>1 DEF SinkCase
      <4>3. QED
        BY <2>2, <3>1, <3>4, <4>1, <4>2, DoesSink
    <3>5. CASE /\ node[n].local.outidx + 1 # BlockSize
               /\ node' = [node EXCEPT ![n].buffer = Filled(node[n], b), ![n].local = RowKept(node[n].local)]
               /\ stack' = stack
               /\ UNCHANGED <<plan, exec, last, env>>
      <4>1. LocalCase(plan.nodes, plan.mask, node, n, Filled(node[n], b), RowKept(node[n].local))
        BY <2>2, <2>10, <2>14, <3>1, <3>2, <3>3, <3>5 DEF LocalCase, AppendCase
      <4>2. QED
        BY <2>2, <3>1, <3>5, <4>1, DoesFill
    <3>6. QED
      BY <1>2, <2>4, <2>14, <3>4, <3>5, AppendRowKinds
  <2>15. QED
    BY <1>2, <2>4, <2>11, <2>12, <2>13, <2>14, AppendRowKinds
<1>3. QED
  BY <1>1, <1>2

LEMMA EmitRestDoes ==
  ASSUME Typed, NEW n, EmitRest(n)
  PROVE  OperatorDoes(n)
<1>1. PICK op \in {"filter", "append"}, pc \in {"tail", "end"} :
           /\ At(n, op, pc)
           /\ \/ /\ pc = "tail" /\ node[n].local.outidx > 0
                 /\ Sink(n, TRUE, Resize(node[n].buffer, node[n].local.outidx),
                         [node[n].local EXCEPT !.pc = "end"])
              \/ (pc = "end" \/ node[n].local.outidx = 0) /\ Ends(n, "none") /\ UNCHANGED env
  BY EmitRestKinds
<1>2. /\ InCoroutine(n) /\ LocalOK(plan.nodes, n, node[n].local) /\ plan.nodes[n].op = op
      /\ n \in DOMAIN plan.nodes /\ node[n].local.pc = pc
      /\ node[n].buffer \in Seq(0 .. NumRows)
  BY <1>1, AtTyped
<1>3. CASE /\ pc = "tail" /\ node[n].local.outidx > 0
           /\ Sink(n, TRUE, Resize(node[n].buffer, node[n].local.outidx),
                   [node[n].local EXCEPT !.pc = "end"])
  <2>1. PICK u \in 0 .. (BlockSize - 1) : u = node[n].local.outidx
    BY <1>2, LocalParts
  <2>2. u \in Nat /\ u <= BlockSize
    BY ConstantTypes
  <2>3. Resize(node[n].buffer, u) \in Seq(0 .. NumRows) /\ Len(Resize(node[n].buffer, u)) = u
    BY <1>2, <2>2, ResizeTyped
  <2>4. /\ "end" \in Pcs(plan.nodes[n].op) /\ "end" \in AllPcs
        /\ "end" \notin {"first_left", "test", "left", "skip_left", "first_right", "right"}
    BY <1>1, <1>2 DEF Pcs, AllPcs
  <2>5. LocalOK(plan.nodes, n, [node[n].local EXCEPT !.pc = "end"])
    BY <1>2, <2>4, SetPcOK
  <2>6. PICK e \in BOOLEAN : e = TRUE
    OBVIOUS
  <2>7. SinkCase(plan.nodes, plan.mask, node, n, e, Resize(node[n].buffer, u),
                 [node[n].local EXCEPT !.pc = "end"])
    BY <1>1, <1>2, <1>3, <2>1, <2>2, <2>3, <2>5, <2>6 DEF SinkCase
  <2>8. QED
    BY <1>2, <1>3, <2>1, <2>3, <2>6, <2>7, DoesSink
<1>4. CASE (pc = "end" \/ node[n].local.outidx = 0) /\ Ends(n, "none") /\ UNCHANGED env
  <2>1. EndCase(plan.nodes, node, ~ env.canceled, n, "none") /\ "none" \in Exceptions
    BY <1>1, <1>2, <1>4 DEF EndCase, Exceptions
  <2>2. QED
    BY <1>2, <1>4, <2>1, DoesEnd
<1>5. QED
  BY <1>1, <1>3, <1>4

LEMMA FailDoes ==
  ASSUME Typed, EnvTyped, NEW n, Fail(n)
  PROVE  OperatorDoes(n)
<1>1. PICK op \in {"source", "linear"}, pc \in {"read", "apply"} :
        At(n, op, pc) /\ (op = "linear" => pc = "apply")
  BY FailKinds
<1>2. InCoroutine(n) /\ plan.nodes[n].op = op /\ node[n].local.pc = pc
  BY <1>1, AtTyped
<1>3. Ends(n, "failed") /\ env'.canceled = env.canceled
  BY FailKinds DEF EnvTyped
<1>4. EndCase(plan.nodes, node, ~ env.canceled, n, "failed") /\ "failed" \in Exceptions
  BY <1>1, <1>2 DEF EndCase, Exceptions
<1>5. QED
  BY <1>2, <1>3, <1>4, DoesEnd

LEMMA OperatorStepDoes ==
  ASSUME Typed, EnvTyped, NEW n, OperatorStep(n) \/ Fail(n)
  PROVE  OperatorDoes(n)
BY SourceDoes, LinearDoes, FilterCallDoes, FilterTopDoes, FilterRowDoes, FilterTestDoes, AppendDoes,
   EmitRestDoes, FailDoes DEF OperatorStep

-----------------------------------------------------------------------------
(* The steps of the specification, as steps from one z to another.         *)

Now(a, r) == [nd |-> node, st |-> stack, a |-> a, r |-> r, go |-> ~ env.canceled,
              pc |-> exec.pc, ex |-> exec, last |-> last]
After(a, r) == [nd |-> node', st |-> stack', a |-> a, r |-> r, go |-> ~ env'.canceled,
                pc |-> exec'.pc, ex |-> exec', last |-> last']

\* The executor does not notice.
Unnoticed(z, z2) == z2.go = z.go /\ z2.pc = z.pc /\ z2.ex = z.ex /\ z2.last = z.last
\* And nobody is asked, or answers.
Aside(z, z2) == Unnoticed(z, z2) /\ z2.a = z.a /\ z2.r = z.r

TurnEnds(p, z, z2) ==
  /\ Aside(z, z2)
  /\ \E n \in DOMAIN p, why \in Exceptions :
       EndCase(p, z.nd, z.go, n, why) /\ EndStep(z.nd, z.st, z2.nd, z2.st, n, why)
TurnSinks(p, mask, z, z2) ==
  /\ Aside(z, z2)
  /\ \E n \in DOMAIN p, e \in BOOLEAN, b \in Seq(0 .. NumRows) : \E o :
       SinkCase(p, mask, z.nd, n, e, b, o) /\ SinkStep(z.nd, z.st, z2.nd, z2.st, n, e, b, o)
TurnMoves(p, mask, z, z2) ==
  /\ Aside(z, z2)
  /\ \E n \in DOMAIN p, b \in Seq(0 .. NumRows) : \E o :
       LocalCase(p, mask, z.nd, n, b, o) /\ LocalStep(z.nd, z.st, z2.nd, z2.st, n, b, o)
TurnResumes(p, z, z2) ==
  /\ Aside(z, z2)
  /\ \E n \in DOMAIN p, c \in Edges(p) : \E o :
       /\ ResumeStep(z.nd, z.st, z2.nd, z2.st, n, c, o)
       /\ AfterSinkIs(p, n, z.nd[n].skip, z.nd[n].local, o)
TurnEnters(p, d, z, z2) ==
  /\ Unnoticed(z, z2) /\ z.go /\ z2.a = z.a
  /\ \E c \in Edges(p), k \in BOOLEAN :
       /\ EnterStep(p, z.nd, z.st, z2.nd, z2.st, c, k)
       /\ c = Executor => z.pc = "call"
       /\ z2.r = Rounds(p, d, z, c)

\* What generate_to_callback_function() makes of what it gets from node n.
Collects(z, z2, n, rows) ==
  /\ z2.ex.outcome = z.ex.outcome /\ z2.ex.reported = z.ex.reported
  /\ ~ rows => /\ z2.ex.pc = "check" /\ z2.ex.collected = z.ex.collected
               /\ z2.ex.stopped = z.ex.stopped
  /\ rows => /\ z2.ex.collected = z.ex.collected \o z.nd[n].buffer
             /\ z2.ex.pc \in {"call", "check"}
             /\ z2.ex.pc = "check" <=> z2.ex.stopped

\* The call of consumer c on node n returns.
IsReturn(p, z, z2, n, c, rows, o) ==
  /\ rows <=> RowsReturned(z.nd, n, c)
  /\ ReturnStep(p, z.nd, z.st, z2.nd, z2.st, n, c, o)
  /\ c # Executor => ReceivedIs(p, c[1], rows, z.nd[c[1]].local, o) /\ z2.ex = z.ex
  /\ c = Executor => Collects(z, z2, n, rows)
  /\ z2.a = [z.a EXCEPT ![c] = z.a[c] + 1]
  /\ z2.last = [node |-> n, skip |-> z.nd[n].skip, rows |-> rows]
TurnReturns(p, z, z2) ==
  /\ z2.r = z.r /\ z2.go = z.go
  /\ \E n \in DOMAIN p, c \in Edges(p), rows \in BOOLEAN : \E o : IsReturn(p, z, z2, n, c, rows, o)

TurnCancels(z, z2) ==
  /\ z2.nd = z.nd /\ z2.st = z.st /\ z2.a = z.a /\ z2.r = z.r
  /\ ~ z2.go /\ z2.pc = z.pc /\ z2.ex = z.ex /\ z2.last = z.last
\* The executor finds that the user has canceled,
TurnStops(z, z2) ==
  /\ z2.nd = z.nd /\ z2.st = z.st /\ z2.a = z.a /\ z2.r = z.r /\ z2.go = z.go /\ z2.last = z.last
  /\ z.st = <<>> /\ z.ex.pc = "call" /\ ~ z.go /\ z2.ex.pc = "done" /\ z2.ex.outcome = "thrown"
  /\ z2.ex.reported = z.ex.reported
  /\ z2.ex.collected = z.ex.collected /\ z2.ex.stopped = z.ex.stopped
\* or looks for an exception.
Throws(p, z) == \E n \in DOMAIN p : z.nd[n].exception # "none"
TurnChecks(p, z, z2) ==
  /\ z2.nd = z.nd /\ z2.st = z.st /\ z2.a = z.a /\ z2.r = z.r /\ z2.go = z.go /\ z2.last = z.last
  /\ z.st = <<>> /\ z.ex.pc = "check" /\ z2.ex.pc = "done"
  /\ z2.ex.collected = z.ex.collected /\ z2.ex.stopped = z.ex.stopped
  /\ Throws(p, z) => /\ z2.ex.outcome = "thrown"
                     /\ \E e \in [DOMAIN p -> 0 .. Len(p)] :
                          /\ z2.ex.reported = e[Len(p)]
                          /\ \A n \in DOMAIN p : e[n] = EarliestFrom(p, z.nd, e, n)
  /\ ~ Throws(p, z) => z2.ex.outcome = "ok" /\ z2.ex.reported = 0

\* tip->reset() reaches the nodes of S.
ResetOf(p, z, z2, S) ==
  /\ Len(p) \in S
  /\ \A m \in S : z.nd[m].started => \A i \in 1 .. Arity(p, m) : p[m].in[i] \in S
  /\ \A x \in DOMAIN p : x \in S => /\ ~ z2.nd[x].started
                                    /\ z2.nd[x].exception \in {"none", z.nd[x].exception}
                                    /\ z.nd[x].started => z2.nd[x].exception = "none"
  /\ \A x \in DOMAIN p : x \notin S => z2.nd[x] = z.nd[x]
TurnResets(p, z, z2) ==
  /\ \E S \in SUBSET DOMAIN p : ResetOf(p, z, z2, S)
  /\ z2.a = [c \in Edges(p) |-> 0] /\ z2.r = [c \in Edges(p) |-> 0]
  /\ z2.st = <<>> /\ Good0(p, z2.nd, z2.st) /\ z2.last = NoReturn /\ z2.ex = NewExec

Turn(p, mask, d, z, z2) ==
  \/ TurnEnds(p, z, z2) \/ TurnSinks(p, mask, z, z2) \/ TurnMoves(p, mask, z, z2)
  \/ TurnResumes(p, z, z2) \/ TurnEnters(p, d, z, z2) \/ TurnReturns(p, z, z2)
  \/ TurnCancels(z, z2) \/ TurnStops(z, z2) \/ TurnChecks(p, z, z2) \/ TurnResets(p, z, z2)

\* What a step of the specification is, for every history a and r.
TurnNext(d, a, r) ==
  /\ plan' = plan
  /\ \E a2, r2 : /\ Turn(plan.nodes, plan.mask, d, Now(a, r), After(a2, r2))
                 /\ After(a2, r2).pc = After(a2, r2).ex.pc

LEMMA NowIs ==
  ASSUME NEW a, NEW r
  PROVE  /\ Now(a, r).nd = node /\ Now(a, r).st = stack /\ Now(a, r).a = a /\ Now(a, r).r = r
         /\ Now(a, r).go = (~ env.canceled) /\ Now(a, r).pc = exec.pc /\ Now(a, r).ex = exec
         /\ Now(a, r).last = last
         /\ After(a, r).nd = node' /\ After(a, r).st = stack' /\ After(a, r).a = a /\ After(a, r).r = r
         /\ After(a, r).go = (~ env'.canceled) /\ After(a, r).pc = exec'.pc /\ After(a, r).ex = exec'
         /\ After(a, r).last = last'
BY DEF Now, After

LEMMA OperatorTurn ==
  ASSUME TypeInv, NEW n \in Nodes, OperatorStep(n) \/ Fail(n), NEW d, NEW a, NEW r
  PROVE  TurnNext(d, a, r)
<1>1. OperatorDoes(n)
  BY TypeInvTyped, OperatorStepDoes
<1>2. Untouched /\ env'.canceled = env.canceled /\ n \in DOMAIN plan.nodes
  BY <1>1 DEF OperatorDoes, Nodes
<1>3. PICK z : z = Now(a, r)
  OBVIOUS
<1>4. CASE ~ OperatorCalls(plan.nodes, node, stack, node', stack', ~ env.canceled, n)
  <2>1. PICK z2 : z2 = After(a, r)
    OBVIOUS
  <2>2. Aside(z, z2)
    BY <1>2, <1>3, <2>1, NowIs DEF Aside, Unnoticed, Untouched
  <2>3. /\ z.nd = node /\ z.st = stack /\ z2.nd = node' /\ z2.st = stack' /\ z.go = (~ env.canceled)
        /\ z2.pc = z2.ex.pc
    BY <1>3, <2>1, NowIs
  <2>4. OperatorCase(plan.nodes, plan.mask, z.nd, z.st, z2.nd, z2.st, z.go, n)
    BY <1>1, <2>3 DEF OperatorDoes
  <2>8. ~ OperatorCalls(plan.nodes, z.nd, z.st, z2.nd, z2.st, z.go, n)
    BY <1>4, <2>3
  <2>9. \/ TurnEnds(plan.nodes, z, z2) \/ TurnSinks(plan.nodes, plan.mask, z, z2)
        \/ TurnMoves(plan.nodes, plan.mask, z, z2)
    BY <1>2, <2>2, <2>4, <2>8 DEF OperatorCase, OperatorEnds, OperatorSinks, OperatorMoves,
       TurnEnds, TurnSinks, TurnMoves
  <2>10. Turn(plan.nodes, plan.mask, d, z, z2)
    BY <2>9 DEF Turn
  <2>11. QED
    BY <1>2, <1>3, <2>1, <2>3, <2>10 DEF TurnNext, Untouched
<1>5. CASE OperatorCalls(plan.nodes, node, stack, node', stack', ~ env.canceled, n)
  <2>1. PICK c \in Edges(plan.nodes), k \in BOOLEAN :
          ~ env.canceled /\ c # Executor /\ EnterStep(plan.nodes, node, stack, node', stack', c, k)
    BY <1>5 DEF OperatorCalls
  <2>2. PICK r2 : r2 = Rounds(plan.nodes, d, z, c)
    OBVIOUS
  <2>3. PICK z2 : z2 = After(a, r2)
    OBVIOUS
  <2>4. /\ z.nd = node /\ z.st = stack /\ z2.nd = node' /\ z2.st = stack' /\ z.go = (~ env.canceled)
        /\ z2.pc = z2.ex.pc /\ z2.a = z.a /\ z2.r = r2
    BY <1>3, <2>3, NowIs
  <2>5. Unnoticed(z, z2)
    BY <1>2, <1>3, <2>3, NowIs DEF Unnoticed, Untouched
  <2>6. TurnEnters(plan.nodes, d, z, z2)
    BY <2>1, <2>2, <2>4, <2>5 DEF TurnEnters
  <2>7. Turn(plan.nodes, plan.mask, d, z, z2)
    BY <2>6 DEF Turn
  <2>8. QED
    BY <1>2, <1>3, <2>3, <2>4, <2>7 DEF TurnNext, Untouched
<1>6. QED
  BY <1>4, <1>5

LEMMA ResumeTurn ==
  ASSUME TypeInv, Resume, NEW d, NEW a, NEW r
  PROVE  TurnNext(d, a, r)
<1>1. PICK n \in DOMAIN plan.nodes, c \in Edges(plan.nodes) :
           /\ ResumeStep(node, stack, node', stack', n, c, AfterSink(n))
           /\ AfterSinkIs(plan.nodes, n, node[n].skip, node[n].local, AfterSink(n))
           /\ UNCHANGED <<plan, exec, last, env>>
  BY TypeInvTyped, ResumeKind
<1>2. PICK z : z = Now(a, r)
  OBVIOUS
<1>3. PICK z2 : z2 = After(a, r)
  OBVIOUS
<1>4. z.nd = node /\ z.st = stack /\ z2.nd = node' /\ z2.st = stack' /\ z2.pc = z2.ex.pc
  BY <1>2, <1>3, NowIs
<1>5. Aside(z, z2)
  BY <1>1, <1>2, <1>3, NowIs DEF Aside, Unnoticed
<1>6. TurnResumes(plan.nodes, z, z2)
  BY <1>1, <1>4, <1>5 DEF TurnResumes
<1>7. Turn(plan.nodes, plan.mask, d, z, z2)
  BY <1>6 DEF Turn
<1>8. QED
  BY <1>1, <1>2, <1>3, <1>4, <1>7 DEF TurnNext

LEMMA ReturnTurn ==
  ASSUME TypeInv, Return, NEW d, NEW a, NEW r
  PROVE  TurnNext(d, a, r)
<1>1. PICK n \in DOMAIN plan.nodes, c \in Edges(plan.nodes), rows \in BOOLEAN :
           /\ rows <=> RowsReturned(node, n, c)
           /\ ReturnStep(plan.nodes, node, stack, node', stack', n, c, Received(c[1], rows))
           /\ last' = [node |-> n, skip |-> node[n].skip, rows |-> rows]
           /\ c # Executor => exec' = exec
           /\ c = Executor => ExecutorReceives(rows)
           /\ UNCHANGED <<plan, env>>
  BY TypeInvTyped, ReturnKind
<1>2. PICK z : z = Now(a, r)
  OBVIOUS
<1>3. PICK a2 : a2 = [a EXCEPT ![c] = a[c] + 1]
  OBVIOUS
<1>4. PICK z2 : z2 = After(a2, r)
  OBVIOUS
<1>5. PICK o : o = Received(c[1], rows)
  OBVIOUS
<1>6. /\ z.nd = node /\ z.st = stack /\ z2.nd = node' /\ z2.st = stack' /\ z2.pc = z2.ex.pc
      /\ z.ex = exec /\ z2.ex = exec' /\ z2.last = last' /\ z2.a = [z.a EXCEPT ![c] = z.a[c] + 1]
      /\ z2.r = z.r
  <2>1. z.nd = node /\ z.st = stack /\ z.ex = exec /\ z.a = a /\ z.r = r
    BY <1>2, NowIs
  <2>2. /\ z2.nd = node' /\ z2.st = stack' /\ z2.pc = exec'.pc /\ z2.ex = exec' /\ z2.last = last'
        /\ z2.a = a2 /\ z2.r = r
    BY <1>4, NowIs
  <2>3. QED
    BY <1>3, <2>1, <2>2
<1>7. z2.go = z.go
  BY <1>1, <1>2, <1>4, NowIs
<1>8. Good0(plan.nodes, node, stack) /\ IsPlan(plan.nodes)
  BY TypeInvTyped DEF Typed
<1>9. c # Executor => ReceivedIs(plan.nodes, c[1], rows, z.nd[c[1]].local, o)
  <2>1. SUFFICES ASSUME c # Executor PROVE ReceivedIs(plan.nodes, c[1], rows, z.nd[c[1]].local, o)
    OBVIOUS
  <2>2. Waits(stack, n, c)
    BY <1>1 DEF ReturnStep
  <2>3. /\ c[1] \in DOMAIN plan.nodes /\ LocalOK(plan.nodes, c[1], node[c[1]].local)
        /\ node[c[1]].local.pc \in AskingPcs
    BY <1>8, <2>1, <2>2, CallerAsks
  <2>4. ReceivedIs(plan.nodes, c[1], rows, node[c[1]].local, Received(c[1], rows))
    BY <1>8, <2>3, ReceivedKind
  <2>5. QED
    BY <1>5, <1>6, <2>4
<1>10. c = Executor => Collects(z, z2, n, rows)
  <2>1. SUFFICES ASSUME c = Executor PROVE Collects(z, z2, n, rows)
    OBVIOUS
  <2>2. n = Src(plan.nodes, c)
    BY <1>1, <1>8, TopTyped DEF ReturnStep, Waits
  <2>3. n = Tip
    BY <2>1, <2>2 DEF Src, Tip
  <2>4. ExecutorReceives(rows)
    BY <1>1, <2>1
  <2>5. QED
    BY <1>6, <2>3, <2>4, ExecutorReceivesIs DEF Collects
<1>11. IsReturn(plan.nodes, z, z2, n, c, rows, o)
  BY <1>1, <1>5, <1>6, <1>9, <1>10 DEF IsReturn
<1>12. TurnReturns(plan.nodes, z, z2)
  BY <1>6, <1>7, <1>11 DEF TurnReturns
<1>13. Turn(plan.nodes, plan.mask, d, z, z2)
  BY <1>12 DEF Turn
<1>14. QED
  BY <1>1, <1>2, <1>4, <1>6, <1>13 DEF TurnNext

LEMMA ExecutorCallTurn ==
  ASSUME TypeInv, ExecutorCall, NEW d, NEW a, NEW r
  PROVE  TurnNext(d, a, r)
<1>1. PICK z : z = Now(a, r)
  OBVIOUS
<1>2. /\ z.nd = node /\ z.st = stack /\ z.ex = exec /\ z.a = a /\ z.r = r /\ z.go = (~ env.canceled)
      /\ z.last = last /\ z.pc = exec.pc
  BY <1>1, NowIs
<1>3. stack = <<>> /\ exec.pc = "call"
  BY ExecutorCallKinds
<1>4. CASE /\ env.canceled /\ exec' = [exec EXCEPT !.pc = "done", !.outcome = "thrown"]
           /\ UNCHANGED <<plan, node, stack, last, env>>
  <2>1. PICK z2 : z2 = After(a, r)
    OBVIOUS
  <2>2. /\ z2.nd = node /\ z2.st = stack /\ z2.ex = exec' /\ z2.a = a /\ z2.r = r /\ z2.go = (~ env.canceled)
        /\ z2.last = last /\ z2.pc = exec'.pc
    BY <1>4, <2>1, NowIs
  <2>3. /\ exec'.pc = "done" /\ exec'.outcome = "thrown" /\ exec'.reported = exec.reported
        /\ exec'.collected = exec.collected /\ exec'.stopped = exec.stopped
    BY <1>4 DEF TypeInv
  <2>4. TurnStops(z, z2)
    BY <1>2, <1>3, <1>4, <2>2, <2>3 DEF TurnStops
  <2>5. Turn(plan.nodes, plan.mask, d, z, z2)
    BY <2>4 DEF Turn
  <2>6. z2.pc = z2.ex.pc /\ plan' = plan
    BY <1>4, <2>2
  <2>7. QED
    BY <1>1, <2>1, <2>5, <2>6 DEF TurnNext
<1>5. CASE /\ ~ env.canceled /\ UNCHANGED <<plan, exec, last, env>>
           /\ Executor \in Edges(plan.nodes)
           /\ EnterStep(plan.nodes, node, stack, node', stack', Executor, FALSE)
  <2>1. PICK r2 : r2 = Rounds(plan.nodes, d, z, Executor)
    OBVIOUS
  <2>2. PICK z2 : z2 = After(a, r2)
    OBVIOUS
  <2>3. /\ z2.nd = node' /\ z2.st = stack' /\ z2.ex = exec /\ z2.a = a /\ z2.r = r2 /\ z2.go = (~ env.canceled)
        /\ z2.last = last /\ z2.pc = exec.pc
    BY <1>5, <2>2, NowIs
  <2>4. Unnoticed(z, z2)
    BY <1>2, <2>3 DEF Unnoticed
  <2>5. PICK c \in Edges(plan.nodes) : c = Executor
    BY <1>5
  <2>6. PICK k \in BOOLEAN : k = FALSE
    OBVIOUS
  <2>7. EnterStep(plan.nodes, z.nd, z.st, z2.nd, z2.st, c, k) /\ z2.r = Rounds(plan.nodes, d, z, c)
    BY <1>2, <1>5, <2>1, <2>3, <2>5, <2>6
  <2>8. TurnEnters(plan.nodes, d, z, z2)
    BY <1>2, <1>3, <1>5, <2>3, <2>4, <2>7 DEF TurnEnters
  <2>9. Turn(plan.nodes, plan.mask, d, z, z2)
    BY <2>8 DEF Turn
  <2>10. QED
    BY <1>1, <1>5, <2>2, <2>3, <2>9 DEF TurnNext
<1>6. QED
  BY <1>4, <1>5, ExecutorCallKinds

LEMMA ExecutorChecksTurn ==
  ASSUME TypeInv, ExecutorChecks, NEW d, NEW a, NEW r
  PROVE  TurnNext(d, a, r)
<1>1. PICK z : z = Now(a, r)
  OBVIOUS
<1>2. PICK z2 : z2 = After(a, r)
  OBVIOUS
<1>3. /\ z.nd = node /\ z.st = stack /\ z.ex = exec /\ z.a = a /\ z.r = r /\ z.go = (~ env.canceled)
      /\ z.last = last /\ z.pc = exec.pc
  BY <1>1, NowIs
<1>4. /\ z2.nd = node /\ z2.st = stack /\ z2.ex = exec' /\ z2.a = a /\ z2.r = r /\ z2.go = (~ env.canceled)
      /\ z2.last = last /\ z2.pc = exec'.pc
  BY <1>2, ExecutorChecksIs, NowIs
<1>5. has_exception <=> Throws(plan.nodes, z)
  BY <1>3 DEF has_exception, Throws, Nodes
<1>6. Throws(plan.nodes, z) => /\ z2.ex.outcome = "thrown"
                     /\ \E e \in [DOMAIN plan.nodes -> 0 .. Len(plan.nodes)] :
                          /\ z2.ex.reported = e[Len(plan.nodes)]
                          /\ \A n \in DOMAIN plan.nodes : e[n] = EarliestFrom(plan.nodes, z.nd, e, n)
  <2>1. SUFFICES ASSUME has_exception
                 PROVE  /\ z2.ex.outcome = "thrown"
                        /\ \E e \in [DOMAIN plan.nodes -> 0 .. Len(plan.nodes)] :
                             /\ z2.ex.reported = e[Len(plan.nodes)]
                             /\ \A n \in DOMAIN plan.nodes : e[n] = EarliestFrom(plan.nodes, z.nd, e, n)
    BY <1>5
  <2>2. exec'.outcome = "thrown" /\ exec'.reported = find_earliest_exception
    BY <2>1, ExecutorChecksIs
  <2>3. PICK e \in [Nodes -> 0 .. Tip] :
           /\ find_earliest_exception = e[Tip]
           /\ \A n \in Nodes : e[n] = EarliestFrom(plan.nodes, node, e, n)
    BY TypeInvTyped, EarliestIs
  <2>4. Nodes = DOMAIN plan.nodes /\ Tip = Len(plan.nodes)
    BY DEF Nodes, Tip
  <2>5. QED
    BY <1>3, <1>4, <2>2, <2>3, <2>4
<1>7. ~ Throws(plan.nodes, z) => z2.ex.outcome = "ok" /\ z2.ex.reported = 0
  BY <1>4, <1>5, ExecutorChecksIs
<1>8. TurnChecks(plan.nodes, z, z2)
  BY <1>3, <1>4, <1>6, <1>7, ExecutorChecksIs DEF TurnChecks
<1>9. Turn(plan.nodes, plan.mask, d, z, z2)
  BY <1>8 DEF Turn
<1>10. QED
  BY <1>1, <1>2, <1>4, <1>9, ExecutorChecksIs DEF TurnNext

LEMMA CancelTurn ==
  ASSUME TypeInv, Cancel, NEW d, NEW a, NEW r
  PROVE  TurnNext(d, a, r)
<1>1. PICK z : z = Now(a, r)
  OBVIOUS
<1>2. PICK z2 : z2 = After(a, r)
  OBVIOUS
<1>3. env'.canceled /\ UNCHANGED <<plan, node, stack, exec, last>>
  BY DEF Cancel, TypeInv
<1>4. /\ z.nd = node /\ z.st = stack /\ z.ex = exec /\ z.a = a /\ z.r = r
      /\ z.last = last /\ z.pc = exec.pc
  BY <1>1, NowIs
<1>5. /\ z2.nd = node /\ z2.st = stack /\ z2.ex = exec /\ z2.a = a /\ z2.r = r /\ ~ z2.go
      /\ z2.last = last /\ z2.pc = exec.pc
  <2>1. z2.go = (~ env'.canceled)
    BY <1>2, NowIs
  <2>2. z2.nd = node' /\ z2.st = stack' /\ z2.ex = exec' /\ z2.a = a /\ z2.r = r /\ z2.last = last' /\ z2.pc = exec'.pc
    BY <1>2, NowIs
  <2>3. QED
    BY <1>3, <2>1, <2>2
<1>6. TurnCancels(z, z2)
  BY <1>4, <1>5 DEF TurnCancels
<1>7. Turn(plan.nodes, plan.mask, d, z, z2)
  BY <1>6 DEF Turn
<1>8. QED
  BY <1>1, <1>2, <1>3, <1>5, <1>7 DEF TurnNext

\* The search of reset(), over the distance from the tip.
ReachedFrom(p, nd, f, k) ==
  LET n == Len(p) - k
  IN  n = Len(p) \/ \E j \in 0 .. (k - 1) :
                      /\ f[j] /\ nd[Len(p) - j].started
                      /\ \E i \in 1 .. Len(p[Len(p) - j].in) : p[Len(p) - j].in[i] = n

LEMMA ResetReaches ==
  ASSUME IsPlan(plan.nodes)
  PROVE  /\ reset_nodes \in SUBSET DOMAIN plan.nodes /\ Len(plan.nodes) \in reset_nodes
         /\ \A m \in reset_nodes : node[m].started =>
              \A i \in 1 .. Arity(plan.nodes, m) : plan.nodes[m].in[i] \in reset_nodes
<1>1. PICK p : p = plan.nodes
  OBVIOUS
<1>2. PICK l \in Nat \ {0} : l = Len(p) /\ DOMAIN p = 1 .. l
  BY <1>1, PlanShape
<1>3. IsPlan(p) /\ Nodes = 1 .. l /\ Tip = l /\ l \in 1 .. l
  BY <1>1, <1>2 DEF Nodes, Tip
<1> DEFINE Body(f) == [k \in 0 .. (l - 1) |-> ReachedFrom(p, node, f, k)]
           V == BOOLEAN
           reached == CHOOSE f : f = Body(f)
<1>4. reset_nodes = {n \in 1 .. l : reached[l - n]}
  BY <1>1, <1>2, <1>3 DEF reset_nodes, ReachedFrom, num_inputs, InputOf
<1>5. \E f : f = Body(f)
  <2> DEFINE G == [f \in [0 .. (l - 1) -> V] |-> Body(f)]
  <2>1. ASSUME NEW f \in [0 .. (l - 1) -> V] PROVE Body(f) \in [0 .. (l - 1) -> V]
    BY DEF ReachedFrom
  <2>2. G \in [[0 .. (l - 1) -> V] -> [0 .. (l - 1) -> V]]
    BY <2>1
  <2>3. ASSUME NEW f \in [0 .. (l - 1) -> V], NEW g \in [0 .. (l - 1) -> V], NEW n \in 0 .. (l - 1),
               \A k \in 0 .. (l - 1) : k < n => f[k] = g[k]
        PROVE  G[f][n] = G[g][n]
    <3>1. \A j \in 0 .. (n - 1) : f[j] = g[j]
      BY <2>3
    <3>2. ReachedFrom(p, node, f, n) <=> ReachedFrom(p, node, g, n)
      BY <3>1 DEF ReachedFrom
    <3>3. G[f] = Body(f) /\ G[g] = Body(g)
      OBVIOUS
    <3>4. ReachedFrom(p, node, f, n) \in BOOLEAN /\ ReachedFrom(p, node, g, n) \in BOOLEAN
      BY DEF ReachedFrom
    <3>5. ReachedFrom(p, node, f, n) = ReachedFrom(p, node, g, n)
      BY <3>2, <3>4
    <3>6. QED
      BY <3>3, <3>5
  <2>4. FALSE \in V /\ 0 \in Nat /\ l - 1 \in Nat
    OBVIOUS
  <2>5. \A f \in [0 .. (l - 1) -> V] : G[f] = Body(f)
    OBVIOUS
  <2> HIDE DEF G, V, Body
  <2>6. \A f, g \in [0 .. (l - 1) -> V] : \A n \in 0 .. (l - 1) :
          (\A k \in 0 .. (l - 1) : k < n => f[k] = g[k]) => G[f][n] = G[g][n]
    BY <2>3
  <2>7. Causal(0, l - 1, V, G)
    BY <2>2, <2>6 DEF Causal
  <2>8. HasFixpoint(0, l - 1, V, G)
    BY <2>4, <2>7, RecursionExists
  <2>9. QED
    BY <2>5, <2>8 DEF HasFixpoint
<1>6. reached = Body(reached)
  BY <1>5
<1>7. PICK e : e = reached
  OBVIOUS
<1> HIDE DEF reached
<1>8. \A k \in 0 .. (l - 1) : e[k] <=> ReachedFrom(p, node, e, k)
  BY <1>6, <1>7
<1>9. reset_nodes = {n \in 1 .. l : e[l - n]}
  BY <1>4, <1>7
<1>10. l \in reset_nodes
  <2>1. e[0]
    BY <1>2, <1>8 DEF ReachedFrom
  <2>2. QED
    BY <1>3, <1>9, <2>1
<1>11. ASSUME NEW m \in reset_nodes, node[m].started, NEW i \in 1 .. Arity(p, m)
       PROVE  p[m].in[i] \in reset_nodes
  <2>1. m \in 1 .. l /\ e[l - m]
    BY <1>9
  <2>2. PICK x \in 1 .. l : x = p[m].in[i] /\ x < m
    BY <1>2, <1>3, <2>1, PlanArity
  <2>3. l - m \in 0 .. ((l - x) - 1) /\ l - (l - m) = m /\ l - (l - x) = x /\ l - x \in 0 .. (l - 1)
    BY <2>1, <2>2
  <2>4. ReachedFrom(p, node, e, l - x)
    BY <1>2, <1>11, <2>1, <2>2, <2>3 DEF ReachedFrom, Arity
  <2>5. QED
    BY <1>8, <1>9, <2>2, <2>3, <2>4
<1>12. QED
  BY <1>1, <1>2, <1>9, <1>10, <1>11

LEMMA ResetTurn ==
  ASSUME TypeInv, Reset, NEW d, NEW a, NEW r
  PROVE  TurnNext(d, a, r)
<1>1. PICK z : z = Now(a, r)
  OBVIOUS
<1>2. PICK a2 : a2 = [c \in Edges(plan.nodes) |-> 0]
  OBVIOUS
<1>3. PICK z2 : z2 = After(a2, a2)
  OBVIOUS
<1>4. z.nd = node
  BY <1>1, NowIs
<1>5. z2.nd = node' /\ z2.st = stack' /\ z2.ex = exec' /\ z2.a = a2 /\ z2.r = a2 /\ z2.last = last' /\ z2.pc = z2.ex.pc
  BY <1>3, NowIs
<1>6. /\ stack = <<>> /\ stack' = <<>> /\ plan' = plan /\ exec' = NewExec /\ last' = NoReturn
      /\ node' = [n \in DOMAIN plan.nodes |-> ResetNode(n)]
  BY ResetIs
<1>7. PICK S : S = reset_nodes
  OBVIOUS
<1>8. /\ S \in SUBSET DOMAIN plan.nodes /\ Len(plan.nodes) \in S
      /\ \A m \in S : node[m].started =>
           \A i \in 1 .. Arity(plan.nodes, m) : plan.nodes[m].in[i] \in S
  BY <1>7, TypeInvTyped, ResetReaches
<1>9. ASSUME NEW x \in DOMAIN plan.nodes
      PROVE  /\ x \in S => /\ ~ node'[x].started
                           /\ node'[x].exception \in {"none", node[x].exception}
                           /\ node[x].started => node'[x].exception = "none"
             /\ x \notin S => node'[x] = node[x]
  BY <1>6, <1>7, ResetNodeIs
<1>10. ResetOf(plan.nodes, z, z2, S)
  BY <1>4, <1>5, <1>8, <1>9 DEF ResetOf
<1>11. Good0(plan.nodes, node', stack')
  BY <1>6, ResetKeepsType, TypeInvTyped DEF TypeInv, Good0
<1>12. TurnResets(plan.nodes, z, z2)
  BY <1>2, <1>5, <1>6, <1>8, <1>10, <1>11 DEF TurnResets
<1>13. Turn(plan.nodes, plan.mask, d, z, z2)
  BY <1>12 DEF Turn
<1>14. QED
  BY <1>1, <1>3, <1>5, <1>6, <1>13 DEF TurnNext

LEMMA NextTurn ==
  ASSUME TypeInv, Next, NEW d, NEW a, NEW r
  PROVE  TurnNext(d, a, r)
BY OperatorTurn, ResumeTurn, ReturnTurn, ExecutorCallTurn, ExecutorChecksTurn, CancelTurn, ResetTurn
DEF Next, Step

-----------------------------------------------------------------------------
(* Every step keeps the control invariant.                                 *)

\* A node that has ended stays so.
EndsStay(p, z, z2) == \A x \in DOMAIN p : En(z, x) = 1 => En(z2, x) = 1

LEMMA AsideRest ==
  ASSUME NEW z, NEW z2, Aside(z, z2)
  PROVE  SameRest(z, z2)
BY DEF Aside, Unnoticed, SameRest

LEMMA EndCaseLink ==
  ASSUME NEW p, NEW d, NEW z, NEW z2, NEW n, NEW why \in Exceptions, Steady(p, d, z), SameRest(z, z2),
         EndCase(p, z.nd, z.go, n, why), EndStep(z.nd, z.st, z2.nd, z2.st, n, why)
  PROVE  Steady(p, d, z2) /\ CEnd(p, z, z2, n)
<1>1. p[n].op = "linear" /\ z.go => Pc(z, n) = "apply"
  BY DEF EndCase, Pc
<1>2. QED
  BY <1>1, EndLink

LEMMA SinkCaseLink ==
  ASSUME NEW p, NEW d, NEW z, NEW z2, NEW n, NEW e \in BOOLEAN, NEW b \in Seq(0 .. NumRows), NEW o,
         NEW mask, Steady(p, d, z), SameRest(z, z2), SinkCase(p, mask, z.nd, n, e, b, o),
         SinkStep(z.nd, z.st, z2.nd, z2.st, n, e, b, o)
  PROVE  Steady(p, d, z2) /\ CSink(p, z, z2, n)
<1>1. SinkCase(p, mask, z.nd, n, e, b, o)
  OBVIOUS
<1>2. PICK q \in LocalType : q = z.nd[n].local
  <2>1. Good0(p, z.nd, z.st) /\ Inside(z.st, n)
    BY DEF Steady, Ctl, Good, SinkStep
  <2>2. QED
    BY <2>1, InsideTyped DEF LocalOK
<1>3. LocalOK(p, n, o) /\ Len(b) <= BlockSize
  BY <1>1 DEF SinkCase
<1>4. /\ o.got = q.got /\ o.arg = q.arg /\ o.skip_next_block = q.skip_next_block
      /\ o.pc = q.pc \/ (q.pc = "tail" /\ o.pc = "end")
  BY <1>1, <1>2 DEF SinkCase, RowEmitted, LocalType
<1>5. p[n].op # "linear" => e
  BY <1>1 DEF SinkCase
<1>6. p[n].op = "linear" => \/ q.pc = "apply" /\ e /\ \A i \in 1 .. Arity(p, n) : q.got[i]
                            \/ q.pc = "fake"
  BY <1>1, <1>2 DEF SinkCase, AllGot
<1>7. QED
  BY <1>2, <1>3, <1>4, <1>5, <1>6, SinkLink

LEMMA LocalCaseLink ==
  ASSUME NEW p, NEW d, NEW z, NEW z2, NEW n, NEW b \in Seq(0 .. NumRows), NEW o, NEW mask,
         Steady(p, d, z), SameRest(z, z2), LocalCase(p, mask, z.nd, n, b, o),
         LocalStep(z.nd, z.st, z2.nd, z2.st, n, b, o)
  PROVE  Steady(p, d, z2) /\ CLocal(p, z, z2, n)
<1>1. PICK q \in LocalType : q = z.nd[n].local
  <2>1. Good0(p, z.nd, z.st) /\ Inside(z.st, n)
    BY DEF Steady, Ctl, Good, LocalStep
  <2>2. QED
    BY <2>1, InsideTyped DEF LocalOK
<1>2. LocalOK(p, n, o) /\ Len(b) <= BlockSize
  BY DEF LocalCase
<1>3. p[n].op = "filter" => Arity(p, n) = 2
  <2>1. Good0(p, z.nd, z.st) /\ Inside(z.st, n)
    BY DEF Steady, Ctl, Good, LocalStep
  <2>2. n \in DOMAIN p /\ IsPlan(p)
    BY <2>1, InsideTyped DEF Good0
  <2>3. QED
    BY <2>2, PlanArity
<1>4. CASE p[n].op = "filter" /\ FilterCase(p, mask, z.nd, n, b, o)
  <2>1. \/ q.pc = "check" /\ o = [q EXCEPT !.pc = "tail"]
        \/ q.pc \in {"first", "check"} /\ AllGot(p, z.nd, n) /\ o = [q EXCEPT !.pc = "rows", !.row = 1]
        \/ q.pc = "rows" /\ o = [q EXCEPT !.pc = "right", !.arg = 2]
        \/ q.pc = "rows" /\ o = RowPassed(q)
        \/ q.pc = "rows" /\ o = RowKept(q)
        \/ q.pc = "test" /\ o = [q EXCEPT !.pc = "left"]
        \/ q.pc = "test" /\ q.got[2] /\ o = [q EXCEPT !.pc = "skip_left"]
    BY <1>1, <1>4 DEF FilterCase
  <2>2. AllGot(p, z.nd, n) => q.got[1] /\ q.got[2]
    BY <1>1, <1>3, <1>4 DEF AllGot
  <2>3. LocalMove(p, n, q, o)
    BY <1>1, <1>4, <2>1, <2>2 DEF LocalMove, RowPassed, RowKept, LocalType
  <2>4. QED
    BY <1>1, <1>2, <2>3, LocalLink
<1>5. CASE p[n].op = "append" /\ AppendCase(p, z.nd, n, b, o)
  <2>1. /\ q.pc = "copy"
        /\ \/ q.arg = 2 /\ o = [q EXCEPT !.pc = "tail"]
           \/ q.arg = 1 /\ o = [q EXCEPT !.pc = "get", !.arg = 2]
           \/ q.got[q.arg] /\ o = [q EXCEPT !.pc = "get"]
           \/ o = RowKept(q)
    BY <1>1, <1>5 DEF AppendCase
  <2>2. LocalMove(p, n, q, o)
    BY <1>1, <1>5, <2>1 DEF LocalMove, RowKept, LocalType
  <2>3. QED
    BY <1>1, <1>2, <2>2, LocalLink
<1>6. QED
  BY <1>4, <1>5 DEF LocalCase

LEMMA OwnEndsStay ==
  ASSUME NEW p, NEW z, NEW z2, NEW n, OwnStep(p, z, z2, n), En(z, n) = 1 => En(z2, n) = 1
  PROVE  EndsStay(p, z, z2)
BY DEF OwnStep, SameAt, EndsStay

\* Nothing but time passes, or the executor is done.
LEMMA OutsideSteady ==
  ASSUME NEW p, NEW d, NEW z, NEW z2, Steady(p, d, z),
         z2.nd = z.nd, z2.st = z.st, z2.a = z.a, z2.r = z.r,
         z2.go => z.go, z2.pc = z.pc \/ z2.pc # "call"
  PROVE  Steady(p, d, z2) /\ EndsStay(p, z, z2)
<1>1. Ctl(p, d, z2)
  BY OutsideControl DEF Steady
<1>2. Pops(p, z2)
  BY DEF Steady, Pops, Up, K, A
<1>3. QED
  BY <1>1, <1>2 DEF Steady, EndsStay, En

\* After a reset no node has started.
LEMMA ResetUp ==
  ASSUME NEW p, NEW d, NEW z, NEW z2, Steady(p, d, z), NEW S \in SUBSET DOMAIN p, ResetOf(p, z, z2, S),
         NEW x \in DOMAIN p
  PROVE  (z.nd[x].started => x \in S) /\ ~ z2.nd[x].started
<1>1. IsPlan(p) /\ \A n \in DOMAIN p : Asked(p, z, n)
  BY CtlParts DEF Steady
<1>2. PICK l \in Nat : l = Len(p) /\ DOMAIN p = 1 .. l
  BY <1>1, PlanShape
<1>3. \A y \in DOMAIN p : z.nd[y].started => y \in S
  <2> DEFINE T == {y \in DOMAIN p : z.nd[y].started /\ y \notin S}
  <2>1. SUFFICES ASSUME T # {} PROVE FALSE
    OBVIOUS
  <2>2. T \in SUBSET (0 .. l)
    BY <1>2
  <2>3. PICK m \in T : \A k \in T : k <= m
    BY <2>1, <2>2, Greatest
  <2>4. m \in DOMAIN p /\ z.nd[m].started /\ m \notin S /\ m \in Nat
    BY <1>2
  <2>5. PICK c \in Edges(p) : Src(p, c) = m /\ (c # Executor => Up(z, c[1]) = 1)
    BY <1>1, <2>4 DEF Asked, Up
  <2>6. c # Executor
    BY <2>4, <2>5 DEF Src, ResetOf
  <2>7. /\ c[1] \in DOMAIN p /\ c[2] \in 1 .. Arity(p, c[1]) /\ Src(p, c) = p[c[1]].in[c[2]]
        /\ Src(p, c) < c[1]
    BY <1>1, <2>6, EdgeShape
  <2>8. z.nd[c[1]].started
    BY <2>5, <2>6 DEF Up
  <2>9. c[1] \notin S
    BY <2>4, <2>5, <2>7, <2>8 DEF ResetOf
  <2>10. c[1] \in T
    BY <2>7, <2>8, <2>9
  <2>11. c[1] <= m /\ c[1] \in Nat
    BY <1>2, <2>3, <2>7, <2>10
  <2>12. QED
    BY <2>4, <2>5, <2>7, <2>11
<1>4. QED
  BY <1>3 DEF ResetOf

LEMMA FreshSteady ==
  ASSUME NEW p, NEW d, NEW z, Good0(p, z.nd, z.st), IsDriver(p, d), z.st = <<>>,
         \A x \in DOMAIN p : ~ z.nd[x].started,
         z.a = [c \in Edges(p) |-> 0], z.r = [c \in Edges(p) |-> 0]
  PROVE  Steady(p, d, z)
<1>1. Good(p, z) /\ IsPlan(p)
  BY DEF Good, Good0
<1>2. ON(z) = {}
  BY DEF ON, On
<1>3. \A x \in DOMAIN p : Up(z, x) = 0
  BY DEF Up
<1>4. \A c \in Edges(p) : A(z, c) = 0 /\ R(z, c) = 0
  BY DEF A, R
<1>5. Ctl(p, d, z)
  BY <1>1, <1>2, <1>3, <1>4, FreshControl
<1>6. Pops(p, z)
  BY <1>1, <1>3, EdgeShape DEF Pops
<1>7. QED
  BY <1>5, <1>6 DEF Steady

\* The last call that returned nullptr without having been asked to skip found
\* the end.
LastOK(p, z) ==
  z.last.node \in DOMAIN p /\ ~ z.last.skip /\ ~ z.last.rows => En(z, z.last.node) = 1

\* The control invariant.
Paced(p, d, z) == Steady(p, d, z) /\ LastOK(p, z) /\ z.pc = z.ex.pc

LEMMA AsidePaced ==
  ASSUME NEW p, NEW d, NEW z, NEW z2, Paced(p, d, z), Unnoticed(z, z2), Steady(p, d, z2), EndsStay(p, z, z2)
  PROVE  Paced(p, d, z2)
BY DEF Paced, Unnoticed, LastOK, EndsStay

LEMMA EndsPaced ==
  ASSUME NEW p, NEW d, NEW z, NEW z2, Paced(p, d, z), TurnEnds(p, z, z2)
  PROVE  Paced(p, d, z2)
<1>1. PICK n \in DOMAIN p, why \in Exceptions :
        EndCase(p, z.nd, z.go, n, why) /\ EndStep(z.nd, z.st, z2.nd, z2.st, n, why)
  BY DEF TurnEnds
<1>2. Aside(z, z2) /\ SameRest(z, z2) /\ Unnoticed(z, z2) /\ Steady(p, d, z)
  BY AsideRest DEF TurnEnds, Paced, Aside
<1>3. Steady(p, d, z2) /\ CEnd(p, z, z2, n)
  BY <1>1, <1>2, EndCaseLink
<1>4. EndsStay(p, z, z2)
  BY <1>3, OwnEndsStay DEF CEnd
<1>5. QED
  BY <1>2, <1>3, <1>4, AsidePaced

LEMMA SinksPaced ==
  ASSUME NEW p, NEW d, NEW z, NEW z2, NEW mask, Paced(p, d, z), TurnSinks(p, mask, z, z2)
  PROVE  Paced(p, d, z2)
<1>1. PICK n \in DOMAIN p, e \in BOOLEAN, b \in Seq(0 .. NumRows) : \E o :
        SinkCase(p, mask, z.nd, n, e, b, o) /\ SinkStep(z.nd, z.st, z2.nd, z2.st, n, e, b, o)
  BY DEF TurnSinks
<1>2. Aside(z, z2) /\ SameRest(z, z2) /\ Unnoticed(z, z2) /\ Steady(p, d, z)
  BY AsideRest DEF TurnSinks, Paced, Aside
<1>3. Steady(p, d, z2) /\ CSink(p, z, z2, n)
  BY <1>1, <1>2, SinkCaseLink
<1>4. EndsStay(p, z, z2)
  BY <1>3, OwnEndsStay DEF CSink
<1>5. QED
  BY <1>2, <1>3, <1>4, AsidePaced

LEMMA MovesPaced ==
  ASSUME NEW p, NEW d, NEW z, NEW z2, NEW mask, Paced(p, d, z), TurnMoves(p, mask, z, z2)
  PROVE  Paced(p, d, z2)
<1>1. PICK n \in DOMAIN p, b \in Seq(0 .. NumRows) : \E o :
        LocalCase(p, mask, z.nd, n, b, o) /\ LocalStep(z.nd, z.st, z2.nd, z2.st, n, b, o)
  BY DEF TurnMoves
<1>2. Aside(z, z2) /\ SameRest(z, z2) /\ Unnoticed(z, z2) /\ Steady(p, d, z)
  BY AsideRest DEF TurnMoves, Paced, Aside
<1>3. Steady(p, d, z2) /\ CLocal(p, z, z2, n)
  BY <1>1, <1>2, LocalCaseLink
<1>4. EndsStay(p, z, z2)
  BY <1>3, OwnEndsStay DEF CLocal
<1>5. QED
  BY <1>2, <1>3, <1>4, AsidePaced

LEMMA ResumesPaced ==
  ASSUME NEW p, NEW d, NEW z, NEW z2, Paced(p, d, z), TurnResumes(p, z, z2)
  PROVE  Paced(p, d, z2)
<1>1. PICK n \in DOMAIN p, c \in Edges(p) : \E o :
        /\ ResumeStep(z.nd, z.st, z2.nd, z2.st, n, c, o)
        /\ AfterSinkIs(p, n, z.nd[n].skip, z.nd[n].local, o)
  BY DEF TurnResumes
<1>2. Aside(z, z2) /\ SameRest(z, z2) /\ Unnoticed(z, z2) /\ Steady(p, d, z)
  BY AsideRest DEF TurnResumes, Paced, Aside
<1>3. Steady(p, d, z2) /\ CResume(p, z, z2, n, c)
  BY <1>1, <1>2, ResumeLink
<1>4. EndsStay(p, z, z2)
  BY <1>3, OwnEndsStay DEF CResume
<1>5. QED
  BY <1>2, <1>3, <1>4, AsidePaced

LEMMA EntersPaced ==
  ASSUME NEW p, NEW d, NEW z, NEW z2, Paced(p, d, z), TurnEnters(p, d, z, z2)
  PROVE  Paced(p, d, z2)
<1>1. PICK c \in Edges(p), k \in BOOLEAN :
       /\ EnterStep(p, z.nd, z.st, z2.nd, z2.st, c, k)
       /\ c = Executor => z.pc = "call"
       /\ z2.r = Rounds(p, d, z, c)
  BY DEF TurnEnters
<1>2. Unnoticed(z, z2) /\ z.go /\ z2.a = z.a /\ z2.go /\ z2.pc = z.pc /\ Steady(p, d, z)
  BY DEF TurnEnters, Unnoticed, Paced
<1>3. Steady(p, d, z2) /\ CEnter(p, d, z, z2, c, Src(p, c))
  BY <1>1, <1>2, EnterLink
<1>4. EndsStay(p, z, z2)
  BY <1>3 DEF CEnter, EndsStay
<1>5. QED
  BY <1>2, <1>3, <1>4, AsidePaced

\* A return, as the code and as the views show it.
LEMMA ReturnIs ==
  ASSUME NEW p, NEW d, NEW z, NEW z2, Paced(p, d, z), z2.pc = z2.ex.pc, z2.r = z.r, z2.go = z.go,
         NEW n, NEW c, NEW rows \in BOOLEAN, NEW o, IsReturn(p, z, z2, n, c, rows, o)
  PROVE  Steady(p, d, z2) /\ CReturn(p, z, z2, n, c, IF rows THEN 1 ELSE 0)
<1>1. /\ rows <=> RowsReturned(z.nd, n, c)
      /\ ReturnStep(p, z.nd, z.st, z2.nd, z2.st, n, c, o)
      /\ z2.a = [z.a EXCEPT ![c] = z.a[c] + 1]
      /\ Steady(p, d, z) /\ z.pc = z.ex.pc
  BY DEF IsReturn, Paced
<1>2. c # Executor => ReceivedIs(p, c[1], rows, z.nd[c[1]].local, o) /\ z2.pc = z.pc
  BY <1>1 DEF IsReturn
<1>3. c = Executor /\ ~ rows => z2.pc # "call"
  BY DEF IsReturn, Collects
<1>4. QED
  BY <1>1, <1>2, <1>3, ReturnLink

LEMMA ReturnsPaced ==
  ASSUME NEW p, NEW d, NEW z, NEW z2, Paced(p, d, z), TurnReturns(p, z, z2), z2.pc = z2.ex.pc
  PROVE  Paced(p, d, z2)
<1>1. PICK n \in DOMAIN p, c \in Edges(p), rows \in BOOLEAN : \E o : IsReturn(p, z, z2, n, c, rows, o)
  BY DEF TurnReturns
<1>2. PICK o : IsReturn(p, z, z2, n, c, rows, o)
  BY <1>1
<1>3. z2.r = z.r /\ z2.go = z.go
  BY DEF TurnReturns
<1>4. PICK b : b = IF rows THEN 1 ELSE 0
  OBVIOUS
<1>5. Steady(p, d, z2) /\ CReturn(p, z, z2, n, c, b)
  BY <1>2, <1>3, <1>4, ReturnIs
<1>6. Ctl(p, d, z) /\ Good(p, z2)
  BY <1>5 DEF Paced, Steady, Ctl
<1>7. ReturnKnown(p, d, z, z2, n, c, b)
  BY <1>5, <1>6, ReturnKnows
<1>8. b = 0 /\ Sk(z, n) = 0 => En(z, n) = 1
  BY <1>7 DEF ReturnKnown
<1>9. En(z2, n) = En(z, n)
  BY <1>5 DEF CReturn, KeptAt
<1>10. z2.last = [node |-> n, skip |-> z.nd[n].skip, rows |-> rows]
  BY <1>2 DEF IsReturn
<1>11. ~ z.nd[n].skip => Sk(z, n) = 0
  BY DEF Sk
<1>12. LastOK(p, z2)
  BY <1>4, <1>8, <1>9, <1>10, <1>11 DEF LastOK
<1>13. QED
  BY <1>5, <1>12 DEF Paced

LEMMA TurnPaced ==
  ASSUME NEW p, NEW d, NEW z, NEW z2, NEW mask, Paced(p, d, z), Turn(p, mask, d, z, z2), z2.pc = z2.ex.pc
  PROVE  Paced(p, d, z2)
<1>1. CASE TurnCancels(z, z2) \/ TurnStops(z, z2) \/ TurnChecks(p, z, z2)
  <2>1. /\ z2.nd = z.nd /\ z2.st = z.st /\ z2.a = z.a /\ z2.r = z.r /\ z2.last = z.last
        /\ z2.go => z.go
    BY <1>1 DEF TurnCancels, TurnStops, TurnChecks
  <2>2. z2.pc = z.pc \/ z2.pc # "call"
    BY <1>1 DEF TurnCancels, TurnStops, TurnChecks, Paced
  <2>3. Steady(p, d, z2) /\ EndsStay(p, z, z2)
    BY <2>1, <2>2, OutsideSteady DEF Paced
  <2>4. QED
    BY <2>1, <2>3 DEF Paced, LastOK, EndsStay
<1>2. CASE TurnResets(p, z, z2)
  <2>1. PICK S \in SUBSET DOMAIN p : ResetOf(p, z, z2, S)
    BY <1>2 DEF TurnResets
  <2>2. \A x \in DOMAIN p : ~ z2.nd[x].started
    BY <2>1, ResetUp DEF Paced
  <2>3. Steady(p, d, z2)
    BY <1>2, <2>2, FreshSteady DEF TurnResets, Paced, Steady, Ctl
  <2>4. IsPlan(p)
    BY DEF Paced, Steady, Ctl, Good, Good0
  <2>5. 0 \notin DOMAIN p
    BY <2>4, PlanShape
  <2>6. z2.last.node = 0
    BY <1>2 DEF TurnResets, NoReturn
  <2>7. QED
    BY <2>3, <2>5, <2>6 DEF Paced, LastOK
<1>3. QED
  BY <1>1, <1>2, EndsPaced, SinksPaced, MovesPaced, ResumesPaced, EntersPaced, ReturnsPaced DEF Turn

\* The nodes that have been asked in step have no block that somebody missed.
LEMMA PacedInStep ==
  ASSUME NEW p, NEW d, NEW z, Paced(p, d, z), NEW c \in Edges(p), z.nd[Src(p, c)].started
  PROVE  Len(z.nd[Src(p, c)].queue) - z.nd[Src(p, c)].popped[c] <= 1
<1>1. Ctl(p, d, z) /\ Pops(p, z)
  BY DEF Paced, Steady
<1>2. PICK n \in DOMAIN p : n = Src(p, c)
  BY <1>1, CtlParts
<1>3. Pace(d, z, n) /\ Edge(p, d, z, c) /\ R(z, d[n]) \in Nat /\ NodeViewOK(p, z, n) /\ EdgeViewOK(p, z, c)
  BY <1>1, <1>2, CtlParts
<1>4. PICK k \in Nat, a \in Nat, w \in Nat : k = K(z, n) /\ a = A(z, c) /\ w = R(z, d[n])
  BY <1>3 DEF NodeViewOK, EdgeViewOK
<1>5. Up(z, n) = 1 /\ K(z, n) = Len(z.nd[n].queue)
  BY <1>2 DEF Up, K
<1>6. z.nd[n].popped[c] = IF a <= k THEN a ELSE k
  BY <1>1, <1>2, <1>4, <1>5 DEF Pops
<1>7. k <= w /\ w <= a + 1
  BY <1>2, <1>3, <1>4 DEF Pace, Edge, NodeViewOK
<1>8. QED
  BY <1>2, <1>4, <1>5, <1>6, <1>7

-----------------------------------------------------------------------------
(* The control of a plan that is read at one pace.                         *)

PacedInv == TypeInv /\ \E d, a, r : Paced(plan.nodes, d, Now(a, r))

LEMMA InitPaced ==
  ASSUME \A p \in Plans : SameRate(p), Init
  PROVE  PacedInv
<1>1. TypeInv /\ stack = <<>> /\ last = NoReturn
  BY InitType DEF Init
<1>2. plan.nodes \in Plans /\ Good0(plan.nodes, node, stack)
  BY <1>1, TypeInvTyped DEF TypeInv, Good0
<1>3. PICK d : IsDriver(plan.nodes, d)
  BY <1>2 DEF SameRate
<1>4. \A x \in DOMAIN plan.nodes : ~ node[x].started
  BY DEF Init, NewNode
<1>5. PICK a : a = [c \in Edges(plan.nodes) |-> 0]
  OBVIOUS
<1>6. PICK z : z = Now(a, a)
  OBVIOUS
<1>7. z.nd = node /\ z.st = stack /\ z.a = a /\ z.r = a /\ z.pc = z.ex.pc /\ z.last = last
  BY <1>6, NowIs
<1>8. Steady(plan.nodes, d, z)
  BY <1>1, <1>2, <1>3, <1>4, <1>5, <1>7, FreshSteady
<1>9. 0 \notin DOMAIN plan.nodes
  BY <1>2, PlanShape DEF Good0
<1>10. z.last.node = 0
  BY <1>1, <1>7 DEF NoReturn
<1>11. Paced(plan.nodes, d, z)
  BY <1>7, <1>8, <1>9, <1>10 DEF Paced, LastOK
<1>12. QED
  BY <1>1, <1>6, <1>11 DEF PacedInv

LEMMA NextPaced ==
  ASSUME PacedInv, [Next]_vars
  PROVE  PacedInv'
<1>1. TypeInv /\ TypeInv'
  BY NextKeepsType DEF PacedInv
<1>2. PICK d, a, r : Paced(plan.nodes, d, Now(a, r))
  BY DEF PacedInv
<1>3. CASE UNCHANGED vars
  <2>1. plan' = plan /\ Now(a, r)' = Now(a, r)
    BY <1>3 DEF vars, Now
  <2>2. QED
    BY <1>1, <1>2, <2>1 DEF PacedInv
<1>4. CASE Next
  <2>1. plan' = plan /\ \E a2, r2 : /\ Turn(plan.nodes, plan.mask, d, Now(a, r), After(a2, r2))
                                    /\ After(a2, r2).pc = After(a2, r2).ex.pc
    BY <1>1, <1>4, NextTurn DEF TurnNext
  <2>2. PICK a2, r2 : /\ Turn(plan.nodes, plan.mask, d, Now(a, r), After(a2, r2))
                      /\ After(a2, r2).pc = After(a2, r2).ex.pc
    BY <2>1
  <2>3. Paced(plan.nodes, d, After(a2, r2))
    BY <1>2, <2>2, TurnPaced
  <2>4. Now(a2, r2)' = After(a2, r2)
    BY DEF Now, After
  <2>5. QED
    BY <1>1, <2>1, <2>3, <2>4 DEF PacedInv
<1>5. QED
  BY <1>3, <1>4

LEMMA PacedImplies ==
  ASSUME PacedInv
  PROVE  ConsumersInStep /\ NullMeansEnd
<1>1. PICK d, a, r : Paced(plan.nodes, d, Now(a, r))
  BY DEF PacedInv
<1>2. PICK z : z = Now(a, r)
  OBVIOUS
<1>3. z.nd = node /\ z.last = last
  BY <1>2, NowIs
<1>4. IsPlan(plan.nodes) /\ Shape(plan.nodes, node)
  BY TypeInvTyped DEF PacedInv, TypeInv
<1>5. ConsumersInStep
  <2>1. SUFFICES ASSUME NEW n \in DOMAIN plan.nodes, NEW c \in DOMAIN node[n].popped, node[n].started
                 PROVE  Len(node[n].queue) - node[n].popped[c] <= 1
    BY DEF ConsumersInStep, Nodes
  <2>2. NodeOK(plan.nodes, n, node[n])
    BY <1>4 DEF Shape
  <2>3. c \in ConsumersOf(plan.nodes, n)
    BY <2>2, NodeParts
  <2>4. c \in Edges(plan.nodes) /\ Src(plan.nodes, c) = n
    BY <1>4, <2>3, ConsumersAreEdges
  <2>5. QED
    BY <1>1, <1>2, <1>3, <2>1, <2>4, PacedInStep
<1>6. NullMeansEnd
  <2>1. SUFFICES ASSUME last.node # 0, ~ last.skip, ~ last.rows PROVE node[last.node].done
    BY DEF NullMeansEnd
  <2>2. last.node \in 0 .. Len(plan.nodes)
    BY DEF PacedInv, TypeInv
  <2>3. last.node \in DOMAIN plan.nodes
    BY <1>4, <2>1, <2>2, PlanShape
  <2>4. En(z, last.node) = 1
    BY <1>1, <1>2, <1>3, <2>1, <2>3 DEF Paced, LastOK
  <2>5. QED
    BY <1>3, <2>4 DEF En
<1>7. QED
  BY <1>5, <1>6

\* Whatever is skipped, shared or canceled, and whenever the plan is reset: if
\* whoever reads a node reads it at one pace, then no consumer is ever more than
\* one block behind, so that the one output buffer of a node holds the block its
\* slowest consumer has still to read and its queue never reaches its limit.
THEOREM StepCorrect ==
  ASSUME \A p \in Plans : SameRate(p)
  PROVE  Spec => []ConsumersInStep
<1>1. Init => PacedInv
  BY InitPaced
<1>2. PacedInv /\ [Next]_vars => PacedInv'
  BY NextPaced
<1>3. PacedInv => ConsumersInStep
  BY PacedImplies
<1>4. QED
  BY <1>1, <1>2, <1>3, PTL DEF Spec

\* In such a plan a nullptr that get_next() returns to a consumer that did not
\* ask to skip is the end of the data: it is never the one that stands for a
\* block another consumer skipped.
THEOREM NullCorrect ==
  ASSUME \A p \in Plans : SameRate(p)
  PROVE  Spec => []NullMeansEnd
<1>1. Init => PacedInv
  BY InitPaced
<1>2. PacedInv /\ [Next]_vars => PacedInv'
  BY NextPaced
<1>3. PacedInv => NullMeansEnd
  BY PacedImplies
<1>4. QED
  BY <1>1, <1>2, <1>3, PTL DEF Spec
=============================================================================
