----------------------------- MODULE MCProvenFlows -----------------------------
(***************************************************************************)
(* The flows of Flows, with the names of a module that explores another    *)
(* specification beside them.                                              *)
(***************************************************************************)
CONSTANTS
  FlowNames, FlowKindOf, FlowChannels, FlowChannelOf, FlowChallengeOf, FlowPaths,
  Recipients, Reads, States, Homes, MaxHeld, Home, NoRecipient, NoRecords

VARIABLES states, started, waiting, identities, began

flows == <<states, started, waiting, identities, began>>

F == INSTANCE Flows
       WITH Names <- FlowNames, KindOf <- FlowKindOf, Channels <- FlowChannels,
            ChannelOf <- FlowChannelOf, ChallengeOf <- FlowChallengeOf, Paths <- FlowPaths,
            Values <- Recipients, None <- NoRecipient, Absent <- NoRecords,
            held <- states, kv <- waiting

\* The components and their channels, a policy a sign-up can go through, and identities that
\* sign-ups and enrolments left.
ASSUME FlowsFit == F!FlowsAssumption /\ F!PathsGoThrough /\ F!HomesFit

\* What a flow writes is what its person proved (#submitPromptStep, #submitValidationStep).
FlowsAreProven == F!FlowsAreProven

\* Who does not read the address of an identity does not rotate it away (#submitPromptStep).
RotatesProveTheOld == F!RotatesProveTheOld
=============================================================================
