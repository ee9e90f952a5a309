---------------------------- MODULE ExecutionNode ----------------------------
(***************************************************************************)
(* The execution of a query plan (sframe_query_engine/execution): a graph  *)
(* of execution_node objects, each running its operator in a coroutine,    *)
(* pulled by subplan_executor::generate_to_callback_function().            *)
(*                                                                         *)
(* One thread runs the graph.  A call of get_next() on a node may resume   *)
(* the node's coroutine, which may call get_next() on its inputs, and so   *)
(* on: the variable stack holds the calls that have not returned, the      *)
(* executor's first.  Who is resumed, when, and with which skip request    *)
(* depends on the shape of the graph and on the data.                      *)
(*                                                                         *)
(* Data abstraction: every source holds the rows 1..NumRows, a transform   *)
(* copies its rows, a row selects in a filter iff it belongs to the mask,  *)
(* and 0 is any value that does not belong where it is.  A node has ONE    *)
(* output buffer, m_buffers of its query_context, to which all elements of *)
(* its queue point: a consumer reads what the buffer holds when it looks.  *)
(* The queue itself is at the level of module Broadcast: who has popped    *)
(* how much of what was pushed.  Its elements stay in memory as long as    *)
(* ConsumersInStep holds.                                                   *)
(*                                                                         *)
(* Definitions whose comment starts with "Variant" are faulty versions of  *)
(* the definition that follows; nothing in the specification uses them.    *)
(***************************************************************************)
EXTENDS Naturals, Sequences, FiniteSets

CONSTANTS
  Plans,        \* the plans to execute, see PlanType
  NumRows,      \* rows of a source
  BlockSize,    \* sframe_config::SFRAME_READ_BATCH_SIZE
  MaxFailures,  \* bound on the operators that throw
  CanCancel,    \* whether the user may cancel
  MaxResets     \* bound on the calls of reset()

PlanType == Seq([op : {"source", "linear", "filter", "append"}, in : Seq(Nat)])

\* The number of inputs that execution_node::init() accepts for an operator.
Arities(op) == CASE op = "source" -> {0} [] op = "linear" -> {1, 2} [] OTHER -> {2}

\* A plan is a sequence of nodes in the order get_executor() builds them: the
\* inputs of a node come before it, the last node is the tip, and every other
\* node is there because some node reads it.
IsPlan(p) ==
  /\ p \in PlanType
  /\ p # <<>>
  /\ \A n \in DOMAIN p : /\ Len(p[n].in) \in Arities(p[n].op)
                         /\ \A i \in DOMAIN p[n].in : p[n].in[i] \in 1..(n - 1)
  /\ \A n \in 1..(Len(p) - 1) : \E m \in DOMAIN p : \E i \in DOMAIN p[m].in : p[m].in[i] = n

ASSUME ExecutionNodeAssumption ==
  /\ \A p \in Plans : IsPlan(p)
  /\ NumRows \in Nat
  /\ BlockSize \in Nat \ {0}
  /\ MaxFailures \in Nat
  /\ CanCancel \in BOOLEAN
  /\ MaxResets \in Nat

VARIABLES
  plan,    \* the plan and the mask of its filters
  node,    \* the execution_node objects
  stack,   \* the calls of get_next() in progress
  exec,    \* generate_to_callback_function()
  last,    \* the last call of get_next() that returned
  env      \* [failures, canceled, resets]: what happened from outside

vars == <<plan, node, stack, exec, last, env>>

Nodes == DOMAIN plan.nodes
Tip == Len(plan.nodes)
Op(n) == plan.nodes[n].op
InputOf(n, i) == plan.nodes[n].in[i]
num_inputs(n) == Len(plan.nodes[n].in)
Selects(row) == row \in plan.mask

Executor == <<0, 1>>

\* register_consumer(): input i of node m is the consumer <<m, i>> of the node
\* it reads; the executor is a consumer of the tip.
ConsumersOf(p, n) ==
  {c \in (DOMAIN p) \X (1..Len(p)) : /\ c[2] \in DOMAIN p[c[1]].in
                                     /\ p[c[1]].in[c[2]] = n}
  \cup (IF n = Len(p) THEN {Executor} ELSE {})
-----------------------------------------------------------------------------
(* The objects.                                                            *)

FirstPc(op) == CASE op = "source" -> "read"
                 [] op = "linear" -> "get"
                 [] op = "filter" -> "first_left"
                 [] op = "append" -> "get"

\* The local variables of operator_impl::execute().  got[i] says whether the
\* block last read from input i is a block (and not nullptr).
NewOperator(op) == [pc |-> FirstPc(op), arg |-> 1, got |-> <<FALSE, FALSE>>,
                    row |-> 1, outidx |-> 0, start |-> 0, skip_next_block |-> FALSE]

\* queue holds TRUE for an element that points to the output buffer and FALSE
\* for a nullptr.
NewNode(p, n) == [started |-> FALSE, done |-> FALSE, skip |-> FALSE,
                  exception |-> "none", queue |-> <<>>,
                  popped |-> [c \in ConsumersOf(p, n) |-> 0],
                  buffer |-> <<>>, local |-> NewOperator(p[n].op)]

NewExec == [pc |-> "call", collected |-> <<>>, stopped |-> FALSE,
            outcome |-> "none", reported |-> 0]

NoReturn == [node |-> 0, skip |-> FALSE, rows |-> FALSE]

Init == \E p \in Plans, mask \in SUBSET (1..NumRows) :
          /\ plan = [nodes |-> p, mask |-> mask]
          /\ node = [n \in DOMAIN p |-> NewNode(p, n)]
          /\ stack = <<>>
          /\ exec = NewExec
          /\ last = NoReturn
          /\ env = [failures |-> 0, canceled |-> FALSE, resets |-> 0]

\* start_coroutines(): a new queue, and the operator runs from its beginning
\* with an output buffer of its own.
Started(n) == [node[n] EXCEPT !.started = TRUE, !.done = FALSE, !.queue = <<>>,
                              !.popped = [c \in DOMAIN @ |-> 0], !.buffer = <<>>,
                              !.local = NewOperator(Op(n))]
-----------------------------------------------------------------------------
(* execution_node::get_next().                                             *)

Running == stack # <<>>
Top == stack[Len(stack)]
SetTop(frame) == [stack EXCEPT ![Len(stack)] = frame]

\* The coroutine of n is the code that runs now.
InCoroutine(n) == Running /\ Top.node = n /\ Top.inside

\* The coroutine of the node on top gives control back to get_next().
Outside == SetTop([Top EXCEPT !.inside = FALSE])

\* The operator of n returns, or throws why.
Ends(n, why) == /\ node' = [node EXCEPT ![n].done = TRUE, ![n].exception = why]
                /\ stack' = Outside
                /\ UNCHANGED <<plan, exec, last>>

\* Variant: a skip request is never taken back.
SkipNextBlockSticky(n, skip) == skip \/ node[n].skip

\* m_skip_next_block after a call with this request.
SkipNextBlock(n, skip) == skip

\* The call on node n by consumer c is entered.
Enter(n, c, skip) ==
  /\ node' = [node EXCEPT ![n] = [IF node[n].started THEN node[n] ELSE Started(n)
                                    EXCEPT !.skip = SkipNextBlock(n, skip)]]
  /\ stack' = Append(stack, [node |-> n, consumer |-> c, skip |-> skip,
                             inside |-> ~ node[n].started])
  /\ UNCHANGED <<plan, exec, last, env>>

\* The operator of n asks for the next block of its input i.  get_next() throws
\* if the user has canceled, and the operator with it.
CallInput(n, i, skip) ==
  IF env.canceled THEN Ends(n, "canceled") /\ UNCHANGED env
  ELSE Enter(InputOf(n, i), <<n, i>>, skip)

IsEmpty(n, c) == node[n].popped[c] = Len(node[n].queue)

\* What the operator of n does when sink() returns: a source is told to skip,
\* a linear operator is bypassed, the others do not notice.
AfterSink(n) ==
  LET o == node[n].local
  IN  CASE Op(n) = "source" -> [o EXCEPT !.skip_next_block = node[n].skip]
        [] Op(n) = "linear" -> [o EXCEPT !.pc = IF node[n].skip THEN "drain" ELSE "get",
                                         !.arg = 1]
        [] OTHER -> o

\* The queue is empty for the consumer and there is more in the source.
Resume == /\ Running /\ ~ Top.inside
          /\ IsEmpty(Top.node, Top.consumer)
          /\ ~ node[Top.node].done
          /\ node' = [node EXCEPT ![Top.node].local = AfterSink(Top.node)]
          /\ stack' = SetTop([Top EXCEPT !.inside = TRUE])
          /\ UNCHANGED <<plan, exec, last, env>>

\* What the operator of n does with the block it asked for.
Received(n, rows) ==
  LET o == node[n].local
      next(pc, arg) == [o EXCEPT !.got[o.arg] = rows, !.pc = pc, !.arg = arg, !.row = 1]
  IN  CASE Op(n) = "append" -> next("copy", o.arg)
        [] Op(n) = "linear" ->
             IF o.arg < num_inputs(n) THEN next(o.pc, o.arg + 1)
             ELSE next(IF o.pc = "get" THEN "apply" ELSE "fake", 1)
        [] Op(n) = "filter" ->
             CASE o.pc = "first_left"  -> next("first_right", 2)
               [] o.pc = "first_right" -> next("first", 1)
               [] o.pc = "right"       -> next("test", 1)
               [] o.pc = "left"        -> next("check", 1)
               [] o.pc = "skip_left"   -> [o EXCEPT !.pc = "right", !.arg = 2]

\* generate_to_callback_function() gets a block, or nullptr.  The callback may
\* say that it is done.
ExecutorReceives(rows) ==
  IF ~ rows THEN exec' = [exec EXCEPT !.pc = "check"]
  ELSE \E done \in BOOLEAN :
         exec' = [exec EXCEPT !.collected = @ \o node[Tip].buffer,
                              !.stopped = done,
                              !.pc = IF done THEN "check" ELSE "call"]

\* Variant: a block to be skipped stays in the queue.
PopKeepingSkipped(n, c, skip) ==
  IF IsEmpty(n, c) \/ skip THEN node ELSE [node EXCEPT ![n].popped[c] = @ + 1]

\* The nodes after the pop of consumer c.
Pop(n, c, skip) ==
  IF IsEmpty(n, c) THEN node ELSE [node EXCEPT ![n].popped[c] = @ + 1]

\* get_next() pops what the queue has for the consumer, or finds the end of
\* data, and returns to the caller.
Return ==
  LET n == Top.node
      c == Top.consumer
      end == IsEmpty(n, c)
      rows == ~ end /\ ~ Top.skip /\ node[n].queue[node[n].popped[c] + 1]
      popped == Pop(n, c, Top.skip)
  IN  /\ Running /\ ~ Top.inside
      /\ end => node[n].done
      /\ stack' = SubSeq(stack, 1, Len(stack) - 1)
      /\ last' = [node |-> n, skip |-> Top.skip, rows |-> rows]
      /\ IF c = Executor
           THEN node' = popped /\ ExecutorReceives(rows)
           ELSE /\ node' = [popped EXCEPT ![c[1]].local = Received(c[1], rows)]
                /\ UNCHANGED exec
      /\ UNCHANGED <<plan, env>>
-----------------------------------------------------------------------------
(* The operators.  Each step is taken by the operator whose coroutine      *)
(* runs, up to its next call of get_next() or emit().                      *)

At(n, op, pc) == InCoroutine(n) /\ Op(n) = op /\ node[n].local.pc = pc

Goto(n, local) == /\ node' = [node EXCEPT ![n].local = local]
                  /\ UNCHANGED <<plan, stack, exec, last, env>>

\* add_operator_output() and sink().
Sink(n, element, buffer, local) ==
  /\ node' = [node EXCEPT ![n].queue = Append(@, element),
                          ![n].buffer = buffer,
                          ![n].local = local]
  /\ stack' = Outside
  /\ UNCHANGED <<plan, exec, last, env>>

\* query_context::emit() passes m_buffers whatever its argument.
Emit(n, buffer, local) == Sink(n, TRUE, buffer, local)

Finish(n) == Ends(n, "none") /\ UNCHANGED env
AssertFails(n) == Ends(n, "assert") /\ UNCHANGED env

\* The block read from input i: the output buffer of that input as it is now.
Block(n, i) == node[InputOf(n, i)].buffer

RowAt(block, j) == IF j \in DOMAIN block THEN block[j] ELSE 0

\* sframe_rows::resize() keeps what is there.
Resize(block, k) == [j \in 1..k |-> RowAt(block, j)]

SetRow(block, j, row) == [Resize(block, BlockSize) EXCEPT ![j] = row]

\* Variant: one row too late.
FullLate(n) == node[n].local.outidx = BlockSize

\* The next row fills the output buffer.
Full(n) == node[n].local.outidx + 1 = BlockSize

\* One block of sframe_source or sarray_source, read or skipped.
Read(n) ==
  LET o == node[n].local
      end == IF o.start + BlockSize < NumRows THEN o.start + BlockSize ELSE NumRows
  IN  /\ o.start # NumRows
      /\ Emit(n, IF o.skip_next_block THEN node[n].buffer
                 ELSE [j \in 1..(end - o.start) |-> o.start + j],
              [o EXCEPT !.start = end])

SourceStep(n) == /\ At(n, "source", "read")
                 /\ Read(n) \/ (node[n].local.start = NumRows /\ Finish(n))

\* The rows of a transform or binary_transform; rows that do not belong
\* together give a wrong row.
Apply(n) == [j \in DOMAIN Block(n, 1) |->
               IF \A i \in 1..num_inputs(n) : RowAt(Block(n, i), j) = Block(n, 1)[j]
                 THEN Block(n, 1)[j] ELSE 0]

Gets(n) == {node[n].local.got[i] : i \in 1..num_inputs(n)}

LinearCall(n) == \/ At(n, "linear", "get") /\ CallInput(n, node[n].local.arg, FALSE)
                 \/ At(n, "linear", "drain") /\ CallInput(n, node[n].local.arg, TRUE)

LinearApply(n) ==
  /\ At(n, "linear", "apply")
  /\ CASE Gets(n) = {FALSE} -> Finish(n)
       [] Gets(n) = {TRUE} /\ \A i \in 1..num_inputs(n) :
                                Len(Block(n, i)) = Len(Block(n, 1)) ->
            Emit(n, Apply(n), node[n].local)
       [] OTHER -> AssertFails(n)

\* The inputs have been consumed: a nullptr stands for the skipped block.
LinearSkipped(n) == /\ At(n, "linear", "fake")
                    /\ Sink(n, FALSE, node[n].buffer, node[n].local)

FilterCall(n) == \/ At(n, "filter", "first_left")  /\ CallInput(n, 1, FALSE)
                 \/ At(n, "filter", "first_right") /\ CallInput(n, 2, FALSE)
                 \/ At(n, "filter", "right")       /\ CallInput(n, 2, FALSE)
                 \/ At(n, "filter", "left")        /\ CallInput(n, 1, FALSE)
                 \/ At(n, "filter", "skip_left")   /\ CallInput(n, 1, TRUE)

\* The top of the loop over the blocks, after the first and after later reads.
FilterTop(n) ==
  LET o == node[n].local
  IN  /\ At(n, "filter", "first") \/ At(n, "filter", "check")
      /\ CASE Gets(n) = {FALSE} /\ o.pc = "first" -> Finish(n)
           [] Gets(n) = {FALSE} /\ o.pc = "check" -> Goto(n, [o EXCEPT !.pc = "tail"])
           [] Gets(n) = {TRUE} /\ Len(Block(n, 1)) = Len(Block(n, 2)) ->
                Goto(n, [o EXCEPT !.pc = "rows", !.row = 1])
           [] OTHER -> AssertFails(n)

FilterRow(n) ==
  LET o == node[n].local
      selected == Selects(RowAt(Block(n, 2), o.row))
      buffer == SetRow(node[n].buffer, o.outidx + 1, Block(n, 1)[o.row])
  IN  /\ At(n, "filter", "rows")
      /\ IF o.row > Len(Block(n, 1)) THEN Goto(n, [o EXCEPT !.pc = "right", !.arg = 2])
         ELSE IF ~ selected THEN Goto(n, [o EXCEPT !.row = @ + 1])
         ELSE IF Full(n) THEN Emit(n, buffer, [o EXCEPT !.row = @ + 1, !.outidx = 0])
         ELSE /\ node' = [node EXCEPT ![n].buffer = buffer,
                                      ![n].local = [o EXCEPT !.row = @ + 1, !.outidx = @ + 1]]
              /\ UNCHANGED <<plan, stack, exec, last, env>>

is_all_zero(block) == \A j \in DOMAIN block : ~ Selects(block[j])

\* Variant: the left block is skipped when some row of the mask is zero.
SkipsLeftTooOften(n) ==
  /\ node[n].local.got[2]
  /\ \E j \in DOMAIN Block(n, 2) : ~ Selects(Block(n, 2)[j])

\* Variant: the end of the mask counts as a block that selects nothing.
SkipsLeftAtEnd(n) == ~ node[n].local.got[2] \/ is_all_zero(Block(n, 2))

\* The left block is skipped when no row of the mask selects.
SkipsLeft(n) == node[n].local.got[2] /\ is_all_zero(Block(n, 2))

FilterTest(n) ==
  /\ At(n, "filter", "test")
  /\ Goto(n, [node[n].local EXCEPT !.pc = IF SkipsLeft(n) THEN "skip_left" ELSE "left"])

AppendCall(n) == At(n, "append", "get") /\ CallInput(n, node[n].local.arg, FALSE)

AppendRow(n) ==
  LET o == node[n].local
      buffer == SetRow(node[n].buffer, o.outidx + 1, Block(n, o.arg)[o.row])
  IN  /\ At(n, "append", "copy")
      /\ IF ~ o.got[o.arg]
           THEN Goto(n, IF o.arg = 2 THEN [o EXCEPT !.pc = "tail"]
                        ELSE [o EXCEPT !.pc = "get", !.arg = 2])
         ELSE IF o.row > Len(Block(n, o.arg)) THEN Goto(n, [o EXCEPT !.pc = "get"])
         ELSE IF Full(n) THEN Emit(n, buffer, [o EXCEPT !.row = @ + 1, !.outidx = 0])
         ELSE /\ node' = [node EXCEPT ![n].buffer = buffer,
                                      ![n].local = [o EXCEPT !.row = @ + 1, !.outidx = @ + 1]]
              /\ UNCHANGED <<plan, stack, exec, last, env>>

\* The rows left over are emitted as a smaller block, and the operator returns.
EmitRest(n) ==
  LET o == node[n].local
  IN  /\ InCoroutine(n) /\ Op(n) \in {"filter", "append"}
      /\ \/ /\ o.pc = "tail" /\ o.outidx > 0
            /\ Emit(n, Resize(node[n].buffer, o.outidx), [o EXCEPT !.pc = "end"])
         \/ (o.pc = "end" \/ (o.pc = "tail" /\ o.outidx = 0)) /\ Finish(n)

\* A source fails to read its block or a function throws on a row.
Fail(n) ==
  /\ env.failures < MaxFailures
  /\ \/ /\ At(n, "source", "read")
        /\ node[n].local.start # NumRows /\ ~ node[n].local.skip_next_block
     \/ At(n, "linear", "apply") /\ Gets(n) = {TRUE}
  /\ Ends(n, "failed")
  /\ env' = [env EXCEPT !.failures = @ + 1]
-----------------------------------------------------------------------------
(* generate_to_callback_function(), the user, and reset().                 *)

ExecutorCall ==
  /\ ~ Running /\ exec.pc = "call"
  /\ IF env.canceled
       THEN /\ exec' = [exec EXCEPT !.pc = "done", !.outcome = "thrown"]
            /\ UNCHANGED <<plan, node, stack, last, env>>
       ELSE Enter(Tip, Executor, FALSE)

\* Variant: a node's own exception is preferred to those of its inputs.
find_latest_exception ==
  LET latest[n \in Nodes] ==
        LET bad == {i \in 1..num_inputs(n) : latest[InputOf(n, i)] # 0}
        IN  IF node[n].exception # "none" THEN n
            ELSE IF bad # {} THEN latest[InputOf(n, CHOOSE i \in bad : \A j \in bad : i <= j)]
            ELSE 0
  IN  latest[Tip]

\* The node whose exception is rethrown, 0 if there is none: the first one of a
\* search that looks at the inputs of a node, from the left, before the node.
find_earliest_exception ==
  LET earliest[n \in Nodes] ==
        LET bad == {i \in 1..num_inputs(n) : earliest[InputOf(n, i)] # 0}
        IN  IF bad # {} THEN earliest[InputOf(n, CHOOSE i \in bad : \A j \in bad : i <= j)]
            ELSE IF node[n].exception # "none" THEN n
            ELSE 0
  IN  earliest[Tip]

\* Variant: only the tip is looked at.
has_exception_at_tip == node[Tip].exception # "none"

has_exception == \E n \in Nodes : node[n].exception # "none"

ExecutorChecks ==
  /\ ~ Running /\ exec.pc = "check"
  /\ exec' = [exec EXCEPT !.pc = "done",
                !.outcome = IF has_exception THEN "thrown" ELSE "ok",
                !.reported = IF has_exception THEN find_earliest_exception ELSE 0]
  /\ UNCHANGED <<plan, node, stack, last, env>>

\* Another thread sets the flag that must_cancel() reads.
Cancel == /\ CanCancel /\ ~ env.canceled /\ exec.pc # "done"
          /\ env' = [env EXCEPT !.canceled = TRUE]
          /\ UNCHANGED <<plan, node, stack, exec, last>>

\* The nodes tip->reset() reaches: it goes on to the inputs of the nodes whose
\* coroutine has started.
reset_nodes ==
  LET reached[k \in 0..(Tip - 1)] ==    \* node Tip - k
        LET n == Tip - k
        IN  n = Tip \/ \E j \in 0..(k - 1) :
                         /\ reached[j] /\ node[Tip - j].started
                         /\ \E i \in 1..num_inputs(Tip - j) : InputOf(Tip - j, i) = n
  IN  {n \in Nodes : reached[Tip - n]}

\* reset() of the tip between two reads, and the executor starts again.
Reset ==
  /\ ~ Running /\ exec.pc \in {"call", "done"}
  /\ env.resets < MaxResets
  /\ node' = [n \in Nodes |->
                IF n \in reset_nodes
                  THEN [node[n] EXCEPT !.started = FALSE, !.queue = <<>>,
                          !.exception = IF node[n].started THEN "none" ELSE @]
                  ELSE node[n]]
  /\ exec' = NewExec
  /\ last' = NoReturn
  /\ env' = [env EXCEPT !.resets = @ + 1]
  /\ UNCHANGED <<plan, stack>>

OperatorStep(n) ==
  \/ SourceStep(n)
  \/ LinearCall(n) \/ LinearApply(n) \/ LinearSkipped(n)
  \/ FilterCall(n) \/ FilterTop(n) \/ FilterRow(n) \/ FilterTest(n)
  \/ AppendCall(n) \/ AppendRow(n) \/ EmitRest(n)

\* What the executing thread does by itself.
Step == Resume \/ Return \/ ExecutorCall \/ ExecutorChecks
        \/ \E n \in Nodes : OperatorStep(n)

Next == Step \/ Cancel \/ Reset \/ \E n \in Nodes : Fail(n)

\* The thread that executes the plan runs as long as it has something to do.
Spec == Init /\ [][Next]_vars /\ WF_vars(Step)
-----------------------------------------------------------------------------
(* What the plan means, and the properties.                                *)

\* The rows of s at the positions where the rows of m are in the mask.
Filtered(s, m, mask) ==
  LET upto[k \in 0..Len(s)] ==
        IF k = 0 THEN <<>>
        ELSE IF RowAt(m, k) \in mask THEN Append(upto[k - 1], s[k]) ELSE upto[k - 1]
  IN  upto[Len(s)]

\* The rows that node n computes from those of its inputs.
RowsFrom(p, mask, rows, n) ==
  CASE p[n].op = "source" -> [j \in 1..NumRows |-> j]
    [] p[n].op = "linear" -> rows[p[n].in[1]]
    [] p[n].op = "filter" -> Filtered(rows[p[n].in[1]], rows[p[n].in[2]], mask)
    [] p[n].op = "append" -> rows[p[n].in[1]] \o rows[p[n].in[2]]

\* The rows of each node of a plan.
RowsOf(p, mask) == LET rows[n \in DOMAIN p] == RowsFrom(p, mask, rows, n) IN rows

Meaning == RowsOf(plan.nodes, plan.mask)[Tip]

\* The consumer that sets the pace of input i of node m, when d gives the one of
\* m: an append pulls each of its inputs by itself, a filter both of its inputs
\* together (the right one first), and a linear operator when it is pulled.
PaceOf(p, d, m, i) == CASE p[m].op = "linear" -> d[m]
                        [] p[m].op = "filter" -> <<m, 2>>
                        [] p[m].op = "append" -> <<m, i>>

\* d gives every node the one consumer that sets its pace.
IsDriver(p, d) ==
  /\ d[Len(p)] = Executor
  /\ \A m \in DOMAIN p : \A i \in DOMAIN p[m].in : d[p[m].in[i]] = PaceOf(p, d, m, i)

\* The rate control that execution_node.hpp asks for: whoever reads a node reads
\* it at one pace.
SameRate(p) ==
  \E d \in [DOMAIN p -> {Executor} \cup {c \in (DOMAIN p) \X {1, 2} :
                                           p[c[1]].op \in {"filter", "append"}}] : IsDriver(p, d)

\* The inputs that are read row by row together have the same rows.
Aligned(p, mask) ==
  \A n \in DOMAIN p : p[n].op \in {"linear", "filter"} =>
    \A i \in DOMAIN p[n].in : RowsOf(p, mask)[p[n].in[i]] = RowsOf(p, mask)[p[n].in[1]]

\* Type invariant.
TypeOK ==
  /\ \A n \in Nodes :
       /\ node[n].started \in BOOLEAN /\ node[n].done \in BOOLEAN
       /\ node[n].skip \in BOOLEAN
       /\ node[n].exception \in {"none", "failed", "canceled", "assert"}
       /\ node[n].queue \in Seq(BOOLEAN)
       /\ \A c \in DOMAIN node[n].popped : node[n].popped[c] \in Nat
       /\ node[n].buffer \in Seq(0..NumRows) /\ Len(node[n].buffer) <= BlockSize
       /\ node[n].local.arg \in 1..2 /\ node[n].local.row \in 1..(BlockSize + 1)
       /\ node[n].local.outidx < BlockSize /\ node[n].local.start \in 0..NumRows
  /\ \A k \in DOMAIN stack : stack[k].node \in Nodes
  /\ exec.outcome \in {"none", "ok", "thrown"} /\ exec.reported \in 0..Tip

\* As long as no node has failed, the executor gets, block by block, exactly the
\* rows the plan means: skipped blocks, shared nodes, shared output buffers and
\* an earlier reset change nothing.  (Once an input has failed, append goes on
\* with the other one until the exception is reported.)
OutputIsRight ==
  (\A n \in Nodes : node[n].exception = "none") =>
     /\ Len(exec.collected) <= Len(Meaning)
     /\ exec.collected = SubSeq(Meaning, 1, Len(exec.collected))

\* generate_to_callback_function() returns normally only with the whole result,
\* unless the callback stopped it: the nullptr a failed or canceled node ends
\* with is never taken for the end of the data.
NoSilentTruncation ==
  (exec.outcome = "ok" /\ ~ exec.stopped) => exec.collected = Meaning

\* The exception that is rethrown is a cause (the user canceled or an operator
\* failed) and not an assertion that failed downstream because of it.
RootCauseIsReported ==
  exec.outcome = "thrown" =>
    IF exec.reported = 0 THEN env.canceled
    ELSE node[exec.reported].exception \in {"failed", "canceled"}

\* get_next() without skip returns nullptr only at the end of the data: nobody
\* takes the nullptr that stands for a block skipped by another consumer for it.
NullMeansEnd ==
  (last.node # 0 /\ ~ last.skip /\ ~ last.rows) => node[last.node].done

\* No consumer of a node is more than one block behind its output.  The single
\* output buffer needs this, since the next block overwrites it; it also keeps
\* the output queue (limit 2) from spilling to disk, where the nullptr of a
\* skipped block could not be serialized.
ConsumersInStep ==
  \A n \in Nodes : \A c \in DOMAIN node[n].popped :
    node[n].started => Len(node[n].queue) - node[n].popped[c] <= 1

\* The execution ends, with a result or an exception, whatever is skipped.
Terminates == <>[](exec.pc = "done")
=============================================================================
