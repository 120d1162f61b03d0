------------------------------ MODULE VoiceTurn ------------------------------
(***************************************************************************)
(* Turns of the voice assistant: transcribe (only for audio), reply and    *)
(* speak, each a provider call that is reserved before and committed or    *)
(* released after (app/services/leon_voice.py, the route voice_turn).      *)
(* Every ledger call is a transaction of its own.  A turn may break off    *)
(* anywhere, by an error nobody expected or because the process stops: a   *)
(* transaction is rolled back, a reservation stays.                        *)
(***************************************************************************)
EXTENDS Ledger

CONSTANT Reports          \* costs a provider may report

ASSUME VoiceAssumption == Reports \subseteq Nat

VARIABLE at               \* what each spender is doing

CallStages == {"stt", "llm", "tts"}
TurnState == {"idle", "done", "failed", "broken", "crashed"} \cup CallStages

(* A request with text, or with audio of a container the route knows.      *)
StartTurn(s) ==
  /\ at[s] = "idle"
  /\ \E first \in {"llm", "stt"} : at' = [at EXCEPT ![s] = first]
  /\ UNCHANGED ledgerVars

Calling(s) == at[s] \in CallStages /\ open[s] > 0
BeforeCall(s) == at[s] \in CallStages /\ open[s] = 0

After(stage) == CASE stage = "stt" -> "llm" [] stage = "llm" -> "tts" [] stage = "tts" -> "done"

ReserveCall(s) ==
  \/ /\ BeforeCall(s)
     /\ (\E e \in Estimates : LockCap(s, e)) \/ CountDay(s)
     /\ UNCHANGED at
  \/ /\ BeforeCall(s) /\ Deciding(s) /\ Fits(s)
     /\ Reserved(s)
     /\ UNCHANGED at

(* No cap, or no room: the turn fails with 402.                            *)
CapReached(s) ==
  /\ BeforeCall(s)
  /\ at' = [at EXCEPT ![s] = "failed"]
  /\ \/ cap = NoCap /\ UNCHANGED ledgerVars
     \/ Deciding(s) /\ ~Fits(s) /\ Refused(s)

CallSucceeds(s) ==
  /\ Calling(s)
  /\ \E actual \in Reports : CommitSpend(s, actual)
  /\ at' = [at EXCEPT ![s] = After(@)]

(* Mutant: a failed call is tried again, as often as it takes.             *)
CallFailsRetried(s) ==
  /\ Calling(s)
  /\ ReleaseSpend(s)
  /\ UNCHANGED at

(* Mutant: a reply that cannot be used ends the turn without a release.    *)
CallFailsKeeping(s) ==
  /\ Calling(s)
  /\ at' = [at EXCEPT ![s] = "failed"]
  /\ UNCHANGED ledgerVars

(* A transport error, a status of 400 or more, or an answer of no use.     *)
CallFails(s) ==
  /\ Calling(s)
  /\ ReleaseSpend(s)
  /\ at' = [at EXCEPT ![s] = "failed"]

(* Where a turn breaks off, its transaction and the lock with it go, and   *)
(* what was reserved stays.                                                *)
BreakOff(s, end) ==
  /\ at[s] \in CallStages
  /\ at' = [at EXCEPT ![s] = end]
  /\ check' = IF check # NoCheck /\ check.who = s THEN NoCheck ELSE check
  /\ UNCHANGED <<cap, open, today, month, days>>

(* An exception that is not a LeonVoiceError, a database error in a commit *)
(* or a release among them: the route answers 500.                         *)
InternalError(s) == BreakOff(s, "broken")

Crash(s) == BreakOff(s, "crashed")

TurnStep(s) ==
  \/ ReserveCall(s) \/ CapReached(s) \/ CallSucceeds(s) \/ CallFails(s)
  \/ InternalError(s)

VoiceNext == \E s \in Spenders : StartTurn(s) \/ TurnStep(s) \/ Crash(s)
=============================================================================
