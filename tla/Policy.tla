-------------------------------- MODULE Policy --------------------------------
(***************************************************************************)
(* The parts that make, hold and apply the policy, in one specification:   *)
(* one of them is chosen at first and runs; the variables of the others    *)
(* stay as they begin, or keep an idle value.                              *)
(*   "call"        one call, decided, and what the agent is told of it     *)
(*                 (DecidedCall)                                           *)
(*   "credential"  one grant, minted, perhaps damaged, and presented with  *)
(*                 a call (PresentedGrant)                                 *)
(*   "setup"       init and add (Setup)                                    *)
(*   "pipeline"    calls over one cache of decisions (Pipeline)            *)
(*   "probing"     denials, counted per tool and agent (Probing)           *)
(***************************************************************************)
EXTENDS Setup, DecidedCall, PresentedGrant

Parts == {"call", "credential", "setup", "pipeline", "probing"}

CONSTANTS
    Idle,                                         \* a variable of a part that does not run
    Callers, Inputs, NoInput,                     \* Pipeline
    Pairs, Window, Threshold, MaxTracked, MaxTime \* Probing

VARIABLES
    part,
    asked, entries, answer,
    now, windows, fired, denials, others, crowded, due

pipelineVars == <<asked, entries, answer>>
probingVars  == <<now, windows, fired, denials, others, crowded, due>>
allVars == <<part, callVars, paperVars, vars, pipelineVars, probingVars>>

Pipe == INSTANCE Pipeline WITH AskedAt <- Clock

Detector == INSTANCE Probing

ASSUME PipeAssumption == Pipe!PipelineAssumption
ASSUME ProbeAssumption == Detector!ProbingAssumption

AllInit ==
    /\ part \in Parts
    /\ IF part = "call" THEN CallInit
       ELSE policy = Idle /\ envelope = Idle /\ grants = Idle /\ decision = Undecided
    /\ IF part = "credential" THEN PaperInit
       ELSE paper = Idle /\ call = Idle /\ verdict = NoVerdict
    /\ Init
    /\ part # "setup" => client = NoJob.doc /\ file = NoFile /\ says = CHOOSE h \in FirstHints : TRUE
    /\ Pipe!Init
    /\ Detector!Init

DecideCall ==
    /\ part = "call" /\ Decide
    /\ UNCHANGED <<part, paperVars, vars, pipelineVars, probingVars>>

PresentGrant ==
    /\ part = "credential" /\ Present
    /\ UNCHANGED <<part, callVars, vars, pipelineVars, probingVars>>

\* The one decision is made.
Over == (CallDecided \/ verdict # NoVerdict) /\ UNCHANGED allVars

SetUp ==
    /\ part = "setup" /\ Next
    /\ UNCHANGED <<part, callVars, paperVars, pipelineVars, probingVars>>

Pass ==
    /\ part = "pipeline" /\ Pipe!Next
    /\ UNCHANGED <<part, callVars, paperVars, vars, probingVars>>

Probe ==
    /\ part = "probing" /\ Detector!Next
    /\ UNCHANGED <<part, callVars, paperVars, vars, pipelineVars>>

AllNext == DecideCall \/ PresentGrant \/ Over \/ SetUp \/ Pass \/ Probe

AllSpec == AllInit /\ [][AllNext]_allVars

-----------------------------------------------------------------------------
(* Properties; those of the calls, the grants and the commands are in their
   own modules.                                                              *)

\* A hit of the pipeline's cache answers under the policy of this very call.
HitIsThisPolicy == Pipe!HitIsThisPolicy

\* The probing detector's bounded table against a count without one.
CountsTruly == Detector!CountsTruly

=============================================================================
