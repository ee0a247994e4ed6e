------------------------------ MODULE Sandbox ------------------------------
(***************************************************************************)
(* SandboxPlugin::run of src/plugins/sandbox.rs: guests of several turns   *)
(* on one wasmtime engine whose epoch interrupts them.  A ticker thread    *)
(* advances the epoch for everybody, so a global lock keeps one guest at a *)
(* time and a run joins its ticker before it lets the lock go.             *)
(***************************************************************************)
EXTENDS Naturals

CONSTANTS SandboxRuns, NoRun

VARIABLES epoch,   \* Engine's epoch
          held,    \* RUN_LOCK
          exec     \* each run: its step, deadline, ticker and result

sandboxVars == <<epoch, held, exec>>

Init == /\ epoch = 0
        /\ held = NoRun
        /\ exec = [r \in SandboxRuns |-> [pc |-> "compile", deadline |-> 0,
                                          ticker |-> "none", result |-> "none"]]

Ends(r, result) == [exec EXCEPT ![r].pc = "ended", ![r].result = result]

\* Compiling needs no lock; a module may be refused.
Compile(r) ==
    /\ exec[r].pc = "compile"
    /\ exec' = [exec EXCEPT ![r].pc = "lock"] \/ exec' = Ends(r, "invalid")
    /\ UNCHANGED <<epoch, held>>

Deadline == epoch + 1

Acquire(r) ==
    /\ exec[r].pc = "lock" /\ held = NoRun
    /\ held' = r
    /\ exec' = [exec EXCEPT ![r].pc = "prepare", ![r].deadline = Deadline]
    /\ UNCHANGED epoch

\* Instantiation, the input's place in memory and the export may each fail.
Prepare(r) ==
    /\ exec[r].pc = "prepare"
    /\ \/ exec' = [exec EXCEPT ![r].pc = "run", ![r].ticker = "armed"] /\ UNCHANGED held
       \/ exec' = Ends(r, "invalid") /\ held' = NoRun
    /\ UNCHANGED epoch

\* The guest returns, traps or runs out of fuel.
GuestEnds(r) ==
    /\ exec[r].pc = "run"
    /\ \E result \in {"ok", "status", "trap"} :
          exec' = [exec EXCEPT ![r].pc = "tell", ![r].result = result]
    /\ UNCHANGED <<epoch, held>>

Interrupted(r) ==
    /\ exec[r].pc = "run" /\ epoch >= exec[r].deadline
    /\ exec' = [exec EXCEPT ![r].pc = "tell", ![r].result = "timeout"]
    /\ UNCHANGED <<epoch, held>>

\* recv_timeout runs out; the epoch follows, perhaps after the guest ended.
TimesOut(r) == /\ exec[r].ticker = "armed"
               /\ exec' = [exec EXCEPT ![r].ticker = "late"]
               /\ UNCHANGED <<epoch, held>>

Increment(r) == /\ exec[r].ticker = "late"
                /\ epoch' = epoch + 1
                /\ exec' = [exec EXCEPT ![r].ticker = "fired"]
                /\ UNCHANGED held

\* A ticker that still waits is told; one that timed out does not listen.
TellTicker(r) ==
    /\ exec[r].pc = "tell"
    /\ exec' = [exec EXCEPT ![r].pc = "join",
                            ![r].ticker = IF @ = "armed" THEN "told" ELSE @]
    /\ UNCHANGED <<epoch, held>>

\* Slip: the ticker is left to itself.
JoinNot(r) == /\ exec[r].pc = "join"
              /\ exec' = [exec EXCEPT ![r].pc = "ended"]
              /\ held' = NoRun
              /\ UNCHANGED epoch

Join(r) == /\ exec[r].pc = "join"
           /\ exec[r].ticker \in {"told", "fired"}
           /\ exec' = [exec EXCEPT ![r].pc = "ended"]
           /\ held' = NoRun
           /\ UNCHANGED epoch

HostStep(r) == \/ Compile(r) \/ Acquire(r) \/ Prepare(r) \/ Interrupted(r)
               \/ TellTicker(r) \/ Join(r)
TickerStep(r) == TimesOut(r) \/ Increment(r)

Next == \E r \in SandboxRuns : HostStep(r) \/ GuestEnds(r) \/ TickerStep(r)

\* The host and its tickers run; a guest may loop for ever.
Spec == /\ Init /\ [][Next]_sandboxVars
        /\ \A r \in SandboxRuns : WF_sandboxVars(HostStep(r)) /\ WF_sandboxVars(TickerStep(r))

-----------------------------------------------------------------------------
\* A run is interrupted only when its own time is up: no ticker of an earlier
\* run, late as it may be, advances the epoch under it (RUN_LOCK, join).
OwnTimeout == \A r \in SandboxRuns : exec[r].result = "timeout" => exec[r].ticker = "fired"

\* A guest that never returns is interrupted, and the lock goes on to the
\* next run: every run ends (set_epoch_deadline, increment_epoch).
RunsEnd == \A r \in SandboxRuns : <>(exec[r].pc = "ended")
=============================================================================
