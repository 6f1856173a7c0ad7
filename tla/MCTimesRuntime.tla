--------------------------- MODULE MCTimesRuntime ---------------------------
(* Small instances of TimesRuntime for TLC. *)
EXTENDS TimesRuntime

CONSTANTS a1, a2

OneArticle  == {a1}
TwoArticles == {a1, a2}

\* Every article is a publication of its own, or all are aliases in one.
OwnStories == [a \in Articles |-> a]
OneStory   == [a \in Articles |-> 0]

\* One name for the pointer's archive, one for its base, one for the staged archive.
Names2 == 1 .. 2
Names3 == 1 .. 3

NoJobs == {}

NoEvents   == {}
Crashes    == {"kill", "fail", "retention", "outage"}
Retention  == {"kill", "fail", "retention"}
Operated   == {"kill", "retention", "outage", "operator", "window"}
Recovering == {"kill", "quieten"}

=============================================================================
