------------------------------ MODULE MCPlanning ------------------------------
(* Plans of up to four tickets over three files, for TLC. *)
EXTENDS Planning

T(i, needs) == [id |-> i, goal |-> TRUE, criteria |-> TRUE, needs |-> needs,
                scope |-> Files]
Bare(i) == [T(i, <<>>) EXCEPT !.criteria = FALSE]

MCSkeletons == {<<T(1, <<>>)>>, <<Bare(1), Bare(2), T(3, <<1>>)>>}
MCAnswers == {
  <<>>,
  <<T(1, <<>>)>>,
  <<T(3, <<2, 1>>)>>,
  <<T(2, <<1>>), T(1, <<>>)>>,
  <<T(1, <<2>>), T(2, <<3>>)>>,
  <<T(3, <<2>>)>>,
  <<[T(1, <<>>) EXCEPT !.goal = FALSE]>>,
  <<T(None, <<>>)>>}

Legacy == [mode |-> "legacy_unclassified", profile |-> "self_contained",
           realism |-> "production_intent", strategy |-> None, externals |-> FALSE,
           seed |-> FALSE, disclaimer |-> FALSE, acceptance |-> TRUE, live |-> FALSE,
           proof |-> [by |-> "nobody", mode |-> None, strategy |-> None],
           source |-> "none"]
WrittenPlan(ts) == [tickets |-> ts, phases |-> {}, product |-> Legacy, record |-> None]
MCWritten == {
  WrittenPlan(<<T(4, <<3, 2>>), [T(2, <<1, 1>>) EXCEPT !.scope = {"a", "b"}],
                T(1, <<>>), T(3, <<1>>)>>),
  WrittenPlan(<<T(1, <<>>), T(2, <<4>>), T(3, <<2, 1>>), T(4, <<3>>)>>),
  WrittenPlan(<<T(1, <<2>>)>>)}

Brief(m, f, r) == [mode |-> m, profile |-> f, realism |-> r]
MCBriefs == {Brief("library", "self_contained", "production_intent"),
             Brief("web_service", "external_dependencies", "production_intent"),
             Brief("pipeline", "local_dependencies", "seeded_demo")}
MCRecords ==
  {NoAnswers, [NoAnswers EXCEPT !.mode = "unanswered"]}
  \cup {[NoAnswers EXCEPT !.mode = m, !.strategy = s] : m \in Modes, s \in Strategies}
  \cup {[mode |-> "other", intent |-> i, external |-> e, strategy |-> s] :
          i \in {None, "demo", "production_intent"},
          e \in {"live_integration", "local_fake", "mock_only_test"},
          s \in {None, "other", "seeded_demo", "oss_substitute"}}

Raw(i, files, named, after) ==
  [id |-> i, goal |-> TRUE, files |-> files, named |-> named, after |-> after]
MCSubAnswers == {
  <<Raw(1, {"a"}, {"a", "b"}, {}), Raw(None, {}, {}, {1, 2}), Raw(3, {"b"}, {}, {1, 2, 3}),
    Raw(4, {"c"}, {}, {})>>,
  <<Raw(2, {"a"}, {}, {1}), Raw(1, {}, {"c"}, {2})>>,
  <<Raw(1, {"a"}, {}, {}), [Raw(2, {"b"}, {}, {}) EXCEPT !.goal = FALSE]>>}
=============================================================================
