----------------------------- MODULE SendBuffer -----------------------------
(***************************************************************************)
(* The operations on dataToSendBuffer, the buffer between the application  *)
(* and the modem: Mc60Modem::send appends to it and the three stages of    *)
(* SendNetworkAction measure a batch, transmit it and drop it.             *)
(*                                                                         *)
(* A buffer is a sequence of units.  A unit stands for the bytes of one    *)
(* transmission quantum, so OUTPUT_BUFFER_SIZE (6144 bytes in Types.h) and *)
(* GSM_MAX_BYTES_SEND (1460 bytes) are counted in units too.               *)
(***************************************************************************)
EXTENDS Integers, Sequences

CONSTANTS
    OUTPUT_BUFFER_SIZE,  \* capacity of dataToSendBuffer
    GSM_MAX_BYTES_SEND   \* the largest batch one AT+QISEND announces

ASSUME BufferAssumption ==
    /\ OUTPUT_BUFFER_SIZE \in Nat
    /\ GSM_MAX_BYTES_SEND \in Nat \ {0}

(* send() refuses data that does not fit as a whole, and keeps nothing of it. *)
Fits(buffer, data) == Len(buffer) + Len(data) <= OUTPUT_BUFFER_SIZE

(* Mutants: the batch is whatever waits; the batch is always a full one. *)
BatchSizeUncapped(buffer) == Len(buffer)
BatchSizeFull(buffer) == GSM_MAX_BYTES_SEND

(* STAGE_PREPARE: parseCipsendRespoinse always answers GSM_MAX_BYTES_SEND,  *)
(* so the batch is the smaller of that and what the buffer holds.           *)
BatchSize(buffer) ==
    IF Len(buffer) < GSM_MAX_BYTES_SEND THEN Len(buffer) ELSE GSM_MAX_BYTES_SEND

(* Mutant: the wrong end of the buffer. *)
BatchLast(buffer, n) == SubSeq(buffer, Len(buffer) - n + 1, Len(buffer))

(* STAGE_SEND: transmit (data (), n) reads the first n units in place.      *)
Batch(buffer, n) == SubSeq(buffer, 1, n)

(* Mutants: the batch is dropped from the wrong end; the whole buffer is dropped. *)
DeclareLast(buffer, n) ==
    IF Len(buffer) - n <= 0 THEN << >> ELSE SubSeq(buffer, 1, Len(buffer) - n)
DeclareAll(buffer, n) == << >>

(* STAGE_DECLARE: drop the first n units, or everything if there are no more. *)
Declare(buffer, n) ==
    IF Len(buffer) - n <= 0 THEN << >> ELSE SubSeq(buffer, n + 1, Len(buffer))
=============================================================================
