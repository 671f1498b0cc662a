-------------------------- MODULE MCCorrelationEngine --------------------------
(* Constants for the runs of CorrelationEngine.  Two services, span ids 1 to *)
(* 6 of which 6 is never in a trace; a span lasts 100 ms or 500 ms, which is *)
(* slow, even with a fast child.                                           *)
EXTENDS CorrelationEngine, TLC

Durations == {100, 500}

\* the spans that may stand at position i, under an earlier one or a missing one
MCSpanAt(i) == [id : {i}, parent : (1..(i - 1)) \cup {6, NoParent}, service : Service,
                error : BOOLEAN, dur : Durations]

Sp(id, parent, service, error, dur) ==
  [id |-> id, parent |-> parent, service |-> service, error |-> error, dur |-> dur]

\* a chain longer than propagation goes; parents in a circle, and a root beside
\* them; a span listed twice; a root that is also its own grandchild
Special ==
  { <<Sp(1, NoParent, 2, FALSE, 500), Sp(2, 1, 1, TRUE, 500), Sp(3, 2, 2, TRUE, 500), Sp(4, 3, 1, TRUE, 100)>>,
    <<Sp(1, 2, 1, TRUE, 100), Sp(2, 1, 2, TRUE, 500), Sp(3, NoParent, 1, FALSE, 100)>>,
    <<Sp(1, NoParent, 1, FALSE, 500), Sp(2, 1, 2, TRUE, 500), Sp(2, 1, 2, TRUE, 500)>>,
    <<Sp(1, NoParent, 1, FALSE, 500), Sp(2, 1, 2, FALSE, 500), Sp(1, 2, 1, FALSE, 500)>> }

MCTraces ==
  {<<>>} \cup {<<a>> : a \in MCSpanAt(1)}
         \cup {<<a, b>> : a \in MCSpanAt(1), b \in MCSpanAt(2)}
         \cup {<<a, b, c>> : a \in {x \in MCSpanAt(1) : x.parent = NoParent /\ x.service = 1 /\ x.dur = 500},
                             b \in {x \in MCSpanAt(2) : x.parent = 1}, c \in MCSpanAt(3)}
         \cup Special

Rec(service, error, bucket) == [service |-> service, error |-> error, bucket |-> bucket]
MCLogSets == { <<>>, <<Rec(1, TRUE, 0), Rec(2, FALSE, 0), Rec(1, TRUE, 0)>> }

\* service 1 alone with every series of up to five samples; beside or between
\* series of service 2, which has a spike or is steady; with two series of its own
Values1(n) == UNION {[1..m -> {0, 1, 9}] : m \in 0..n}
Of(s, values) == [service |-> s, values |-> values]
MCSeries ==
  {<<Of(1, v)>> : v \in Values1(5)}
    \cup {<<Of(2, w), Of(1, v)>> : w \in {<<0, 0, 0, 9, 0>>, <<1, 1, 1>>}, v \in Values1(4)}
    \cup {<<Of(1, v), Of(2, <<0, 9>>), Of(1, w)>> : v, w \in Values1(2)}

\* a handful of traces, for what does not depend on the trace
FewTraces == Special \cup {<<>>}

=============================================================================
