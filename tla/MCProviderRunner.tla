-------------------------- MODULE MCProviderRunner --------------------------
\* Three providers, whose answers overlap in source and text.
EXTENDS ProviderRunner

CONSTANTS none, bad, nobundle

Signal(source, category, family, words) ==
  [source |-> source, category |-> category, family |-> family,
   status |-> "present", freshness |-> "current", confidence |-> "medium",
   words |-> words, details |-> NoDetails]

A == Signal("a", "file_layout", "", {"x"})
B == Signal("a", "file_layout", "repository", {"y"})
C == Signal("b", "runtime_error", "", {"x"})
Wrong == Signal("b", "runtime_error", "repository", {"y"})
Unknown == Signal("b", "unsupported", "", {"x"})
\* A provider that reports the failure of another one itself.
OfAnother == [FailureOf("p") EXCEPT !.family = "test"]

MCOrder == <<"p", "q", "r">>
MCAnswers ==
  [p |-> {none, <<A>>, <<A, B, A>>},
   q |-> {<<>>, <<bad, C>>, <<A, Wrong>>},
   r |-> {<<Unknown, B>>, <<OfAnother>>}] 
=============================================================================
