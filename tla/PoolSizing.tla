----------------------------- MODULE PoolSizing -----------------------------
(***************************************************************************)
(* helpers/pool.go: how many namespaces a pool has to create (positive) or *)
(* to give up (negative).                                                  *)
(***************************************************************************)
EXTENDS Integers

CONSTANT NoLimit   \* Spec.SizeLimit is nil

ASSUME PoolSizingAssumption == NoLimit \notin Int

\* Two variants with a bug: reserved namespaces do not count against the
\* limit; namespaces that are being created do not count as part of the queue.
DeltaWithoutReserved(poolSizeLimit, size, ready, creating, reserved) ==
    LET current == ready + creating
    IN  IF poolSizeLimit # NoLimit /\ poolSizeLimit < size
        THEN poolSizeLimit - current ELSE size - current

DeltaWithoutCreating(poolSizeLimit, size, ready, creating, reserved) ==
    IF poolSizeLimit # NoLimit /\ poolSizeLimit - (ready + creating + reserved) < size - ready
    THEN poolSizeLimit - (ready + creating + reserved)
    ELSE size - ready

CalculateNamespaceQuantityDelta(poolSizeLimit, size, ready, creating, reserved) ==
    LET currentNamespaceQuantity == ready + creating + reserved
        currentNamespaceQueue    == ready + creating
    IN  IF poolSizeLimit = NoLimit
        THEN size - currentNamespaceQueue
        ELSE IF poolSizeLimit - currentNamespaceQuantity
                  < size - currentNamespaceQueue
             THEN poolSizeLimit - currentNamespaceQuantity
             ELSE size - currentNamespaceQueue
=============================================================================
