----------------------------- MODULE RadioQueue -----------------------------
(***************************************************************************)
(* The receive queue of source/queue/radio_queue.c: a ring of NUM_DE data  *)
(* entries shared by the RF core, which fills the entry at pCurrEntry, and *)
(* by the sniffing task, which takes the entry at ReadEntry.  The status   *)
(* byte of an entry is the only synchronisation between the two.           *)
(*                                                                         *)
(* Entries are numbered 0 .. NUM_DE-1 in the order of their addresses in   *)
(* RadioQueue_RXbuffer.  The bytes of an entry are abstracted to two parts *)
(* that can be written and read at different times: head (the length field *)
(* and the first bytes) and tail (the last bytes).  A part holds the       *)
(* number of the frame it belongs to, 0 when no frame was ever written.    *)
(***************************************************************************)
EXTENDS Naturals

CONSTANT NUM_DE          \* number of data entries of the ring

ASSUME RingAssumption == NUM_DE \in Nat \ {0}

VARIABLES
  status,                \* rfc_dataEntry_t.status of every entry
  entry,                 \* contents of every entry
  pCurrEntry,            \* RadioQueue_object.pCurrEntry, moved by the RF core
  ReadEntry              \* RadioQueue_ReadEntry, moved by the sniffing task

queueVars == <<status, entry, pCurrEntry, ReadEntry>>

Entry  == 0 .. NUM_DE - 1
Status == {"PENDING", "BUSY", "FINISHED"}
Blank  == [head |-> 0, tail |-> 0, proto |-> "none"]

(* Mutated forms: slips this code could have.  No specification uses them. *)
NextWithoutWrap(e) == e + 1

ResetKeepsReadEntry ==
  /\ pCurrEntry' = 0
  /\ status'     = [e \in Entry |-> "PENDING"]
  /\ UNCHANGED ReadEntry

ResetKeepsStatus ==
  /\ pCurrEntry' = 0
  /\ ReadEntry'  = 0
  /\ UNCHANGED status

ReleaseKeepsStatus(p) == UNCHANGED <<status>>

AdvanceTwice(p) == ReadEntry' = IF p = NUM_DE - 1 THEN 0 ELSE p + 1

(* The circular chain of pNextEntry pointers built by RadioQueue_create.   *)
pNextEntry(e) == IF e = NUM_DE - 1 THEN 0 ELSE e + 1

(* RadioQueue_create: the static RXbuffer is zero when the program starts. *)
RadioQueue_create ==
  /\ status     = [e \in Entry |-> "PENDING"]
  /\ entry      = [e \in Entry |-> Blank]
  /\ pCurrEntry = 0
  /\ ReadEntry  = 0

RadioQueue_hasPacket == status[ReadEntry] = "FINISHED"

(* RadioQueue_reset leaves the bytes of the entries alone.                 *)
RadioQueue_reset ==
  /\ pCurrEntry' = 0
  /\ ReadEntry'  = 0
  /\ status'     = [e \in Entry |-> "PENDING"]

(***************************************************************************)
(* RadioQueue_nextEntry in the order of its memory accesses.  The build    *)
(* does not optimise, so RadioQueue_ReadEntry is loaded again for each of  *)
(* the two statements, and the radio callback can preempt between a load   *)
(* and the store that uses it; p is the pointer held in the register.      *)
(***************************************************************************)
NextEntry_Release(p) == status' = [status EXCEPT ![p] = "PENDING"]

NextEntry_Advance(p) == ReadEntry' = p

=============================================================================
