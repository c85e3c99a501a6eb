---------------------------- MODULE BootHistory -----------------------------
(***************************************************************************)
(* Bootloader with counters that only observe it: how often an install     *)
(* phase and a rollback phase erased the application, and how often an     *)
(* image that nobody confirmed was started.  They state the retry limits   *)
(* the README promises across resets, where no single boot can see them.   *)
(***************************************************************************)
EXTENDS Bootloader

VARIABLES
  candErases,  \* erases for the candidate since it was requested
  rbErases,    \* erases for the rollback image in this rollback phase
  trials       \* starts of the installed image since its install

hvars == <<vars, candErases, rbErases, trials>>

(* The counters stop at a bound past every limit they are compared with.   *)
Cap == MaxPhase + MaxTrial + 2

Counted(n) == IF n < Cap THEN n + 1 ELSE n

HInit == Init /\ candErases = 0 /\ rbErases = 0 /\ trials = 0

Erasing == pc = "installErase" /\ pc' = "installErasing"

Observe ==
  /\ candErases' =
       CASE pc = "run" /\ cand' # cand    -> 0
         [] Erasing /\ src = "cand"       -> Counted(candErases)
         [] OTHER                         -> candErases
  /\ rbErases' =
       IF meta'.state \notin RollbackPhase THEN 0
       ELSE IF Erasing /\ src = "rb"       THEN Counted(rbErases)
       ELSE rbErases
  /\ trials' =
       CASE pc = "installVectors" /\ pc' = "installed"           -> 0
         [] pc = "run" /\ meta'.state # meta.state               -> 0
         [] pc = "jump" /\ pc' = "run" /\ meta.state = "TRIAL_BOOT"
                                                                 -> Counted(trials)
         [] OTHER                                                -> trials

HNext == Next /\ Observe

HSpec == HInit /\ [][HNext]_hvars

-----------------------------------------------------------------------------

(* Across any number of resets and faults, the application is erased for   *)
(* one requested candidate at most BOOTLOADER_MAX_PHASE_ATTEMPTS times,    *)
(* however many install phases the request goes through.                   *)
CandidateErasesBounded == candErases <= MaxPhase

(* README.md:120 of BOOTLOADER_MAX_PHASE_ATTEMPTS: the erases that are     *)
(* allowed in one and the same install or rollback phase.                  *)
PhaseErasesBounded == candErases <= MaxPhase /\ rbErases <= MaxPhase

(* What the code keeps of that limit in a rollback phase: one erase more.  *)
(* The one made by the boot that enters the phase is not counted by        *)
(* phase_attempts.                                                         *)
RollbackErasesEnd == rbErases <= MaxPhase + 1

(* BOOTLOADER_MAX_TRIAL_BOOTS: an image nobody confirmed is started at     *)
(* most MaxTrial times before it is rolled back.                           *)
TrialsBounded == trials <= MaxTrial

=============================================================================
