------------------------------ MODULE PolicyWalk ------------------------------
(***************************************************************************)
(* One person performs one dance over one policy: the sign-in walk of the  *)
(* choreography, or the walk of the recovery choreography the library      *)
(* derives for one component (src/api.ts).  A state is the policy, the     *)
(* dance, and the path of the client-held state; a step is one accepted    *)
(* answer, with the skips that follow it.  Who answers, and whether an     *)
(* answer is accepted, is the subject of Dance.tla.                        *)
(***************************************************************************)
EXTENDS Choreography

CONSTANTS
  Policies,         \* the choreography trees a server may be configured with
  Identifications,  \* components of kind "identification"
  Proving,          \* components an accepted value of which proves control
  VerifiableNames,  \* components that verify a value of their own
  SkippableNames,   \* components that declare skippable and skipPrompt
  TheSignIn         \* names the sign-in dance, among the names of recoverable components

VARIABLES
  policy,     \* options.choreography
  dance,      \* TheSignIn, or the component a recovery resets
  walked,     \* the tree the dance walks, made once by the constructor
  path,       \* state.path
  satisfied,  \* the skippable steps whose skipPrompt answers true for the identity
  skipped,    \* history: the positions of path that no prompt asked for
  over        \* the walk completed: tokens, or the prompt of the replacement

vars == <<policy, dance, walked, path, satisfied, skipped, over>>
-----------------------------------------------------------------------------
\* #proves, #provesInRecovery, #firstIdentification and #isRecoveryPath.
Proves(name) == name \in Proving
ProvesInRecovery(name) == Proves(name) \/ name \in Identifications \cap VerifiableNames

\* No step before position n proves, where n is the first identification, or
\* one past the end for a path without one.
ProofsFollowIdentification(steps, proves(_)) ==
  \A n \in DOMAIN steps : proves(steps[n]) => \E m \in 1..n : steps[m] \in Identifications

HasProof(steps, proves(_)) == \E n \in DOMAIN steps : proves(steps[n])

IsRecoveryPath(steps) ==
  /\ \E n \in DOMAIN steps : steps[n] \in Identifications
  /\ ProofsFollowIdentification(steps, ProvesInRecovery)
  /\ HasProof(steps, ProvesInRecovery)

\* The constructor refuses a policy with a complete path that fails
\* #requireProof or #requireProofAfterIdentification.
IsAccepted(tree) ==
  \A steps \in CompletePaths(tree) :
    HasProof(steps, Proves) /\ ProofsFollowIdentification(steps, Proves)

Without(steps, name) == SelectSeq(steps, LAMBDA step : step # name)

\* #recoveryChoreography derives the choice of the complete paths that hold
\* the component, without it, that stay recovery paths.
RecoveryPaths(tree, name) ==
  { steps \in { Without(p, name) : p \in { q \in CompletePaths(tree) : Contains(q, name) } } :
      IsRecoveryPath(steps) }

AsTree(steps) == Sequence([n \in DOMAIN steps |-> Component(steps[n])])

RecoveryChoreography(tree, name) ==
  Simplify(Choice(SetToSeq({ AsTree(steps) : steps \in RecoveryPaths(tree, name) })))

StepNames(tree) == { entry.component : entry \in ToSet(Walk(tree)) } \ {End}

IsRecoverable(tree, name) == name \in StepNames(tree) /\ RecoveryPaths(tree, name) # {}
-----------------------------------------------------------------------------
\* What counts as proof in the dance.
Counts(name) == IF dance = TheSignIn THEN Proves(name) ELSE ProvesInRecovery(name)

\* A variant with a bug, for SkipsFollowAProof: the steps are skipped before a proof.
RECURSIVE SkipStepsUnproven(_)
SkipStepsUnproven(steps) ==
  LET offered == PeekOffers(walked, steps)
      name    == CHOOSE n \in offered : TRUE
  IN  IF ~PeekIsNull(walked, steps) /\ offered = {name} /\ name \in SkippableNames \cap satisfied
      THEN SkipStepsUnproven(Append(steps, name))
      ELSE steps

\* #skipSteps: after a step of the path proved control, push each next step
\* that is no choice, is skippable, and that the identity satisfied already.
RECURSIVE SkipSteps(_)
SkipSteps(steps) ==
  LET offered == PeekOffers(walked, steps)
      name    == CHOOSE n \in offered : TRUE
  IN  IF /\ HasProof(steps, Counts)
         /\ ~PeekIsNull(walked, steps)
         /\ offered = {name}
         /\ name \in SkippableNames \cap satisfied
      THEN SkipSteps(Append(steps, name))
      ELSE steps

\* The steps added after the one that was answered.
SkippedPositions(before, after) == (Len(before) + 2) .. Len(after)

Init ==
  /\ policy \in { tree \in Policies : IsAccepted(tree) /\ PeekOffers(tree, <<>>) # {} }
  /\ dance \in { TheSignIn } \cup { name \in StepNames(policy) : IsRecoverable(policy, name) }
  /\ walked = IF dance = TheSignIn THEN policy ELSE RecoveryChoreography(policy, dance)
  /\ path = <<>>
  /\ satisfied \in SUBSET SkippableNames
  /\ skipped = {}
  /\ over = PeekIsNull(walked, <<>>)

\* A step the component accepted: the path grows by it, then by the skips, and
\* #advance or #continueRecovery peeks at what comes next.
Answer(name) ==
  /\ ~over
  /\ name \in PeekOffers(walked, path)
  /\ path' = SkipSteps(Append(path, name))
  /\ skipped' = skipped \cup SkippedPositions(path, path')
  /\ over' = PeekIsNull(walked, path')
  /\ UNCHANGED <<policy, dance, walked, satisfied>>

\* The dance stays where it ended: the tokens are minted, or the replacement
\* is asked for.
Rest == over /\ UNCHANGED vars

Next == (\E name \in PeekOffers(walked, path) : Answer(name)) \/ Rest

Spec == Init /\ [][Next]_vars
-----------------------------------------------------------------------------
TypeOK ==
  /\ dance \in { TheSignIn } \cup StepNames(policy)
  /\ path \in Seq(StepNames(policy))
  /\ skipped \subseteq DOMAIN path
  /\ over \in BOOLEAN

\* What the policy means for the dance: the language of the policy, or, for a
\* recovery, its paths through the component with the component left out.
Meaning ==
  IF dance = TheSignIn THEN Language(policy)
  ELSE { steps \in { Without(p, dance) : p \in { q \in Language(policy) : Contains(q, dance) } } :
           IsRecoveryPath(steps) }

\* For a policy that repeats no component on a path, the dance is over exactly
\* when its path is a complete path of the policy (docs/concepts/recovery.mdx
\* for a recovery): peek neither ends early nor offers a step past the end.
OverOnlyOnACompletePath ==
  IsRepetitionFree(policy) => (over <=> path \in Meaning)

\* As long as it is not over, the dance offers exactly the steps some complete
\* path continues with, so no branch of the policy is lost on the way.
OffersEveryContinuation ==
  (IsRepetitionFree(policy) /\ ~over) => PeekOffers(walked, path) = NextSteps(Meaning, path)

\* simplify "rewrites a choreography into a smaller tree that states the same
\* policy" (src/choreography.ts:175), on the policies without a repetition.
SimplifyKeepsThePolicy ==
  IsRepetitionFree(policy) => Language(Simplify(policy)) = Language(policy)

\* The same claim without the restriction; a policy that asks for the same
\* factor, or for one of the same choice of factors, two times breaks it.
SimplifyStatesTheSamePolicy == Language(Simplify(policy)) = Language(policy)

\* No prompt is skipped before the person proved control of something: the
\* prompts of a dance tell nothing to who only knows an identification.
SkipsFollowAProof ==
  \A n \in skipped : \E m \in 1..(n - 1) : m \notin skipped /\ Counts(path[m])

\* A recovery of a component ends only with a proof given by another component,
\* after an identification, whatever the policy.
RecoveryProvesWithoutTheComponent ==
  (over /\ dance # TheSignIn) => /\ ~Contains(path, dance)
                              /\ IsRecoveryPath(path)

\* What a person goes through is the policy the deployment wrote, and nothing weaker: from the
\* start of a sign-in or a derived recovery to its end, with its skips.
WalkIsThePolicy ==
  /\ TypeOK
  /\ OverOnlyOnACompletePath /\ OffersEveryContinuation /\ SimplifyKeepsThePolicy
  /\ SkipsFollowAProof /\ RecoveryProvesWithoutTheComponent
=============================================================================
