------------------------------- MODULE MCRuntime -------------------------------
(***************************************************************************)
(* The parts that share no state with each other, checked in one run: a    *)
(* behaviour is of the part `part` names, and the others stand still.      *)
(***************************************************************************)
EXTENDS BoardSettings, VoterTokens, AutomationRuns, SealedLog, MCVectorIndex, TopK,
        Handoff, PeerProof, StandaloneRoot, CompactionQueue

VARIABLE part

CodeList == <<"new", "shipped">>
RecordSet == {<<>>, <<"a">>, <<"b", "c">>}
PlainBytes == <<"a", "b", "c", "a">>

Parts == {"settings", "tokens", "runs", "log", "vectors", "ranking", "handoff",
          "proof", "root", "queue"}

RuntimeInit ==
    /\ part \in Parts
    /\ SetInit /\ TokenInit /\ RunInit /\ LogInit /\ VecInit /\ TopInit /\ HandInit /\ ProofInit
    /\ RootInit /\ QueueInit
    \* Only the part at work starts anywhere but at one place.
    /\ part # "log" => dest = NoFile
    /\ part # "ranking" => wanted = 0
    /\ part # "proof" => \A o \in Origins : server[o] = NoServer

allVars == <<setVars, tokenVars, runVars, logVars, vecVars, topVars, handVars, proofVars,
             rootVars, queueVars>>

\* The parts other than the one that moves stand still.
OthersStand(name) ==
    /\ name # "settings" => UNCHANGED setVars
    /\ name # "tokens" => UNCHANGED tokenVars
    /\ name # "runs" => UNCHANGED runVars
    /\ name # "log" => UNCHANGED logVars
    /\ name # "vectors" => UNCHANGED vecVars
    /\ name # "ranking" => UNCHANGED topVars
    /\ name # "handoff" => UNCHANGED handVars
    /\ name # "proof" => UNCHANGED proofVars
    /\ name # "root" => UNCHANGED rootVars
    /\ name # "queue" => UNCHANGED queueVars

At(name, next) == part = name /\ next /\ UNCHANGED part /\ OthersStand(name)

RuntimeNext ==
    \/ At("settings", SetNext)
    \/ At("tokens", TokenNext)
    \/ At("runs", RunNext)
    \/ At("log", LogNext)
    \/ At("vectors", VecNext)
    \/ At("ranking", TopNext)
    \/ At("handoff", HandNext)
    \/ At("proof", ProofNext)
    \/ At("root", RootNext)
    \/ At("queue", QueueNext)

RuntimeSpec == RuntimeInit /\ [][RuntimeNext]_<<part, allVars>> /\ HandFairness

\* Every state the variables of every part may be in.
RuntimeTypeOK ==
    /\ SetTypeOK /\ TokenTypeOK /\ RunTypeOK /\ LogTypeOK /\ VecTypeOK /\ HandTypeOK
    /\ ProofTypeOK /\ RootTypeOK /\ QueueTypeOK
=============================================================================
