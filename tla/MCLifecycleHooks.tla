-------------------------- MODULE MCLifecycleHooks --------------------------
(* Instances of LifecycleHooks for TLC. *)
EXTENDS LifecycleHooks

CONSTANTS auth, testing

Find(intervention, questions, continues, notable, fails) ==
  [intervention |-> intervention, questions |-> questions,
   continues |-> continues, notable |-> notable, fails |-> fails]

\* What selectArchitecturePolicy and the interview produce together: nothing
\* to do, with or without open questions; a recommendation; an interview about
\* a high-risk concern; a missing decision; a hotspot; a failed analysis.
MCSituations ==
  {Find("note", {}, TRUE, FALSE, FALSE),
   Find("note", {auth}, FALSE, TRUE, FALSE),
   Find("recommend", {testing}, FALSE, TRUE, FALSE),
   Find("recommend", {}, FALSE, TRUE, FALSE),
   Find("interview-required", {auth, testing}, FALSE, TRUE, FALSE),
   Find("decision-required", {}, FALSE, TRUE, FALSE),
   Find("block", {testing}, FALSE, TRUE, FALSE),
   Find("note", {}, TRUE, FALSE, TRUE)}
=============================================================================
