--------------------------- MODULE MCExecutionNode ---------------------------
(* Plans for the model checker: the shapes in which nodes are shared, skipped *)
(* and combined.                                                              *)
EXTENDS ExecutionNode

N(op, in) == [op |-> op, in |-> in]

\* sf[sf['a'] > 0], then an apply: source, mask, filter, transform.
FilterBySelf == <<N("source", <<>>), N("linear", <<1>>), N("filter", <<1, 2>>),
                  N("linear", <<3>>)>>
\* filter(t(s), u(s)).
FilterOfTransform == <<N("source", <<>>), N("linear", <<1>>), N("linear", <<1>>),
                       N("filter", <<2, 3>>)>>
\* filter(t(a), b): the blocks of a are skipped through the transform.
FilterOfOther == <<N("source", <<>>), N("linear", <<1>>), N("source", <<>>),
                   N("filter", <<2, 3>>)>>
\* filter(a + b, b): a binary transform is bypassed, one of its inputs is shared.
FilterOfBinary == <<N("source", <<>>), N("source", <<>>), N("linear", <<1, 2>>),
                    N("filter", <<3, 2>>)>>
\* filter(f, t(f)) where f is itself a filter: the inner filter cannot skip.
FilterOfFilter == <<N("source", <<>>), N("source", <<>>), N("filter", <<1, 2>>),
                    N("linear", <<3>>), N("filter", <<3, 4>>)>>
\* t(s) + u(s).
Diamond == <<N("source", <<>>), N("linear", <<1>>), N("linear", <<1>>),
             N("linear", <<2, 3>>)>>
\* append(a, filter(b, c)).
AppendOfFilter == <<N("source", <<>>), N("source", <<>>), N("source", <<>>),
                    N("filter", <<2, 3>>), N("append", <<1, 4>>)>>

SameRatePlans == {FilterBySelf, FilterOfTransform, FilterOfOther, FilterOfBinary,
                  FilterOfFilter, Diamond, AppendOfFilter}

\* logical_filter(source_A, selector_source) + logical_filter(source_B,
\* selector_source), the example of execution_node.hpp.
RateControlPlans == {<<N("source", <<>>), N("source", <<>>), N("source", <<>>),
                       N("filter", <<1, 3>>), N("filter", <<2, 3>>),
                       N("linear", <<4, 5>>)>>}

\* The hypotheses of the theorems hold of the former and not of the latter.
ASSUME /\ \A p \in SameRatePlans : SameRate(p) /\ \A mask \in SUBSET (1..NumRows) : Aligned(p, mask)
       /\ \A p \in RateControlPlans : ~ SameRate(p)
=============================================================================
