----------------------------- MODULE Recompiler -----------------------------
(***************************************************************************)
(* The life of cores and blocks in the recompiler of src/src/core/arm.     *)
(* Cores are enabled up to the number of processors, jit_run compiles the  *)
(* block at the program counter, and dynrec_destroy takes everything down. *)
(*                                                                         *)
(* A block is the instructions of Words; the translator knows one, nop.    *)
(* Memory is at least a block long.  The list of cores is a sequence,      *)
(* which module List justifies, except that list_drop on an empty list     *)
(* dereferences null.  One thread drives all cores, as in nop_test.c.      *)
(***************************************************************************)
EXTENDS Naturals, Sequences, SequencesExt

CONSTANTS
  Processors,  \* CPU_COUNT of the process
  Words,       \* the instructions of a block (0x200 / 4)
  Quota,       \* the instructions a run compiles (1024)
  MaxCores     \* bound on the cores ever enabled

ASSUME CountAssumption == Processors \in Nat /\ Words \in Nat

VARIABLES
  known,        \* what the words of memory are: instructions of the table or not
  cores_list,   \* the cores enabled, in order
  cores_live,   \* the cores whose memory is held
  cores_made,   \* how many have been enabled
  blocks,       \* the blocks compiled: nested_blocks, and the instructions in irs, or none
  blocks_live,  \* the blocks whose memory is held
  int_enabled,  \* jit_run stops
  step,         \* "idle", "compile", "cleanup", "destroyed" or "crashed"
  fault         \* a block or core was freed twice

recompilerVars ==
  <<known, cores_list, cores_live, cores_made, blocks, blocks_live, int_enabled, step, fault>>

\* dynrec_create
RecompilerInit ==
  /\ known \in [1 .. Words -> BOOLEAN]
  /\ cores_list = <<>> /\ cores_live = {} /\ cores_made = 0
  /\ blocks = <<>> /\ blocks_live = {} /\ int_enabled = FALSE
  /\ step = "idle" /\ fault = FALSE

SameBlocks == UNCHANGED <<known, blocks, blocks_live, int_enabled>>
SameCores == UNCHANGED <<known, cores_list, cores_live, cores_made>>

----------------------------------------------------------------------------
(* Cores *)

\* dynrec_enablecore
EnableCore ==
  /\ step = "idle" /\ cores_made < MaxCores
  /\ Len(cores_list) # Processors
  /\ cores_made' = cores_made + 1
  /\ cores_list' = Append(cores_list, cores_made')
  /\ cores_live' = cores_live \cup {cores_made'}
  /\ UNCHANGED <<step, fault>> /\ SameBlocks

\* Mutant: the core stays in the list.
WithoutNone(c) == cores_list

\* The list after the loop of dynrec_disablecore, which drops the core where it finds it:
\* enabling made it, so it is there once.
Without(c) == RemoveAt(cores_list, CHOOSE i \in DOMAIN cores_list : cores_list[i] = c)

\* dynrec_disablecore, with th_context_destroy
DisableCore(c) ==
  /\ step = "idle" /\ c \in Range(cores_list)
  /\ cores_list' = Without(c)
  /\ cores_live' = cores_live \ {c}
  /\ fault' = (fault \/ c \notin cores_live)
  /\ UNCHANGED <<cores_made, step>> /\ SameBlocks

\* The cores that the loop of dynrec_destroy disables: a turn disables the core at its index,
\* which drops it, drops the one then there and leaves the next before the index: of three
\* cores the first.
Taken == { cores_list[i] : i \in { k \in DOMAIN cores_list : k % 3 = 1 } }

\* dynrec_destroy.  With one core the second drop is from an empty list, through a null
\* pointer; with more, the cores not disabled stay with nothing left to reach them by.
Destroy ==
  /\ step = "idle"
  /\ step' = IF Len(cores_list) = 1 THEN "crashed" ELSE "destroyed"
  /\ cores_live' = cores_live \ Taken
  /\ fault' = (fault \/ ~(Taken \subseteq cores_live))
  /\ cores_list' = <<>>
  /\ UNCHANGED cores_made /\ SameBlocks

----------------------------------------------------------------------------
(* Blocks *)

\* jit_run, of any core: only the first run finds int_enabled clear.
Run ==
  /\ step = "idle" /\ cores_list # <<>> /\ ~int_enabled
  /\ step' = "compile"
  /\ UNCHANGED <<fault, blocks, blocks_live, int_enabled>> /\ SameCores

\* arm64_generate_irs: an instruction the table does not have is translated like the one
\* before it, of which there must be one: what the slot holds first is not initialised.
Translated == IF known[1] THEN Words ELSE 0

\* The instructions compiled so far (compiled of jit_compile)
compiled == Len(blocks) * Words

\* The blocks after the n-th is compiled: it is nested in the first, if it is another.
Nested(n) == [i \in DOMAIN blocks |->
                IF i = 1 THEN [blocks[i] EXCEPT !.nested = Append(@, n)] ELSE blocks[i]]

\* A turn of jit_compile
Compile ==
  /\ step = "compile"
  /\ IF Translated = 0 THEN step' = "crashed" /\ UNCHANGED <<blocks, blocks_live>>
     ELSE LET n == Len(blocks) + 1
          IN  /\ blocks' = Append(Nested(n), [nested |-> <<>>, irs |-> Translated])
              /\ blocks_live' = blocks_live \cup {n}
              /\ step' = IF compiled + Words < Quota THEN "compile" ELSE "cleanup"
  /\ UNCHANGED <<int_enabled, fault>> /\ SameCores

\* What jit_cleanup frees, given a block: the blocks nested in it, then itself.
Freed(n) == blocks[n].nested \o <<n>>

\* jit_cleanup of the first block, which stops jit_run
Cleanup ==
  /\ step = "cleanup"
  /\ int_enabled' = TRUE
  /\ blocks_live' = blocks_live \ Range(Freed(1))
  /\ fault' = (fault \/ ~IsInjective(Freed(1)) \/ ~(Range(Freed(1)) \subseteq blocks_live))
  /\ step' = "idle"
  /\ UNCHANGED blocks /\ SameCores

RecompilerNext ==
  \/ EnableCore \/ (\E c \in 1 .. MaxCores : DisableCore(c)) \/ Destroy
  \/ Run \/ Compile \/ Cleanup

RecompilerSpec == RecompilerInit /\ [][RecompilerNext]_recompilerVars

----------------------------------------------------------------------------
(* Properties *)

\* What is held is what can be reached: the cores in the list, and of a run's blocks the
\* first and those nested in it; so disabling every core and letting the run end, as
\* nop_test.c does, leaves nothing behind.  A destruction with cores enabled does leave
\* some; but nothing is freed twice, then neither.
HeldIsReachable ==
  /\ ~fault
  /\ step \notin {"destroyed", "crashed"} =>
       /\ cores_live = Range(cores_list) /\ Len(cores_list) <= Processors
       /\ blocks_live = IF step \in {"compile", "cleanup"} /\ blocks # <<>>
                          THEN {1} \cup Range(blocks[1].nested) ELSE {}
=============================================================================
