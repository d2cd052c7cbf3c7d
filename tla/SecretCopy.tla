----------------------------- MODULE SecretCopy -----------------------------
(***************************************************************************)
(* The secrets of one namespace, from its creation until a reservation has *)
(* taken it: CopySecretsFrom (helpers/namespaces.go), called by the pool   *)
(* controller when it sets the namespace up and by reserveNamespace for a  *)
(* reservation with a SecretSourceNamespace, and CopyReservationSecrets    *)
(* (helpers/reservation.go), for a reservation with a Team.                *)
(*                                                                         *)
(* The namespace is in the pool until the Update at the end of             *)
(* reserveNamespace; a check-out that fails before it leaves the namespace *)
(* in the pool with whatever it has done to its secrets, and is repeated   *)
(* for the same reservation or for another one.                            *)
(***************************************************************************)
EXTENDS ApiCalls

CONSTANTS
    Secret,       \* names of secrets
    Annotations,  \* Annotations[s]: those of s in the namespaces copied from
    TeamSecrets,  \* the team's secrets that are found in NamespaceHcmAi
    Reservation,  \* reservations that try to take the namespace
    Sourced,      \* those with a Spec.SecretSourceNamespace
    InTeam,       \* those with a Spec.Team of the pool
    SetUp         \* stands for the pool controller

Attributes == [qontract : {"missing", "other", "vault", "rhcs"},
               bonfireIgnore : {"missing", "false", "true"}]

ASSUME SecretCopyAssumption ==
    /\ Annotations \in [Secret -> Attributes]
    /\ TeamSecrets \subseteq Secret
    /\ Sourced \subseteq Reservation
    /\ InTeam \subseteq Reservation
    /\ SetUp \notin Reservation
    /\ {"none", "team"} \cap (Reservation \cup {SetUp}) = {}

VARIABLES
    place,       \* where the namespace is in its life
    holder,      \* the reservation that has taken it
    content,     \* content[s]: where the namespace's copy of s comes from: the
                 \* source namespace of SetUp or of a reservation, or a team's
    copyPc,      \* the next step of the copy in progress
    copyFor,     \* on whose behalf
    todo,        \* the secrets that remain to be copied
    replacing,   \* the secret that was deleted to be copied anew
    anyFailed    \* len(secretsFailed) > 0

copyVars == <<copyPc, copyFor, todo, replacing, anyFailed>>
secretVars == <<place, holder, content, copyVars>>

Origin == Reservation \cup {SetUp, "none", "team"}

SecretTypeOK ==
    /\ place \in {"new", "pooled", "taken", "wasted"}
    /\ holder \in Reservation \cup {SetUp}
    /\ content \in [Secret -> Origin]
    /\ copyPc \in {"idle", "copy", "recreate", "team", "teamcopy", "update"}
    /\ copyFor \in Reservation \cup {SetUp}
    /\ todo \in SUBSET Secret
    /\ replacing = {} \/ \E s \in Secret : replacing = {s}
    /\ anyFailed \in BOOLEAN
    /\ place = "taken" => holder \in Reservation
    /\ replacing # {} <=> copyPc = "recreate"
    /\ anyFailed => copyPc \in {"copy", "recreate"}

SecretInit ==
    /\ place = "new"
    /\ holder = SetUp
    /\ content = [s \in Secret |-> "none"]
    /\ copyPc = "idle"
    /\ copyFor = SetUp
    /\ todo = {}
    /\ replacing = {}
    /\ anyFailed = FALSE

-----------------------------------------------------------------------------
(***************************************************************************)
(* How a copy goes on.                                                     *)
(***************************************************************************)
\* With a bug: the list of failures is not emptied for the next copy.
ProceedWithFailures(step, secrets) ==
    /\ copyPc' = step
    /\ todo' = secrets
    /\ replacing' = {}
    /\ UNCHANGED anyFailed

Proceed(step, secrets) ==
    /\ copyPc' = step
    /\ todo' = secrets
    /\ replacing' = {}
    /\ anyFailed' = FALSE

\* The call returns; an error puts the reservation back into the work queue.
Leave == Proceed("idle", {}) /\ copyFor' = SetUp

\* After the secrets of the source namespace.
AfterSource(r) == IF r \in InTeam THEN "team" ELSE "update"

\* With a bug: the annotation bonfire.ignore is not looked at.
EligibleIgnored(s) == Annotations[s].qontract \in {"vault", "rhcs"}

\* Secrets of app-interface are copied, unless bonfire is to ignore them.
Eligible(s) ==
    /\ Annotations[s].qontract \in {"vault", "rhcs"}
    /\ Annotations[s].bonfireIgnore # "true"

(***************************************************************************)
(* UpdateNamespaceResources and reserveNamespace: the List of the secrets. *)
(* A new namespace whose set-up fails is deleted.                          *)
(***************************************************************************)
SetUpSecrets ==
    /\ copyPc = "idle" /\ place = "new"
    /\ \E result \in {"ok", "failed"} :
         /\ Call(TRUE, result)
         /\ IF result = "ok"
            THEN Proceed("copy", {s \in Secret : Eligible(s)}) /\ UNCHANGED <<place, copyFor>>
            ELSE place' = "wasted" /\ Leave
    /\ UNCHANGED <<holder, content>>

CheckOut(r) ==
    /\ copyPc = "idle" /\ place = "pooled"
    /\ \E result \in {"ok", "failed"} :
         /\ Call(TRUE, result)
         /\ IF result = "ok"
            THEN /\ copyFor' = r
                 /\ IF r \in Sourced
                    THEN Proceed("copy", {s \in Secret : Eligible(s)})
                    ELSE Proceed(AfterSource(r), {})
            ELSE Leave
    /\ UNCHANGED <<place, holder, content>>

(***************************************************************************)
(* CopySecretsFrom.  A failure with one secret is remembered and the next  *)
(* one is copied.  A secret that exists already counts as copied, unless   *)
(* it is to be overwritten (for a reservation): then it is deleted and     *)
(* created again, and is missing if that fails.                            *)
(***************************************************************************)
overwrite == copyFor # SetUp

CopyDone(s, ok) ==
    /\ copyPc' = "copy"
    /\ todo' = todo \ {s}
    /\ replacing' = {}
    /\ anyFailed' = (anyFailed \/ ~ok)
    /\ UNCHANGED <<place, holder, copyFor>>

Store(s, origin, result) ==
    content' = IF Applied(result) THEN [content EXCEPT ![s] = origin] ELSE content

CopySecret(s) ==
    /\ copyPc = "copy" /\ s \in todo /\ content[s] = "none"
    /\ \E result \in Results :
         Call(TRUE, result) /\ Store(s, copyFor, result) /\ CopyDone(s, result = "ok")

\* Two variants with a bug: what exists is never overwritten; what exists is
\* a failure, as it is for the secrets of a team.
KeepExisting(s) ==
    /\ copyPc = "copy" /\ s \in todo /\ content[s] # "none"
    /\ CopyDone(s, TRUE)
    /\ UNCHANGED <<content, faults>>

RefuseExisting(s) ==
    /\ copyPc = "copy" /\ s \in todo /\ content[s] # "none"
    /\ CopyDone(s, FALSE)
    /\ UNCHANGED <<content, faults>>

ReplaceSecret(s) ==
    /\ copyPc = "copy" /\ s \in todo /\ content[s] # "none"
    /\ IF overwrite
       THEN \E result \in Results :
              /\ Call(TRUE, result)
              /\ Store(s, "none", result)
              /\ IF result = "ok"
                 THEN /\ copyPc' = "recreate" /\ replacing' = {s}
                      /\ UNCHANGED <<place, holder, copyFor, todo, anyFailed>>
                 ELSE CopyDone(s, FALSE)
       ELSE CopyDone(s, TRUE) /\ UNCHANGED <<content, faults>>

RecreateSecret(s) ==
    /\ copyPc = "recreate" /\ s \in replacing
    /\ \E result \in Results :
         Call(TRUE, result) /\ Store(s, copyFor, result) /\ CopyDone(s, result = "ok")

\* With a bug: the failures are only logged.
ReturnNoError == FALSE
CopyFailed == anyFailed

\* An error if any secret failed; otherwise the caller goes on.  The pool
\* controller marks the namespace ready, and deletes it if there was an error.
CopyReturns ==
    /\ copyPc = "copy" /\ todo = {}
    /\ IF copyFor = SetUp
       THEN Leave /\ place' = IF CopyFailed THEN "wasted" ELSE "pooled"
       ELSE /\ IF CopyFailed
               THEN Leave
               ELSE Proceed(AfterSource(copyFor), {}) /\ UNCHANGED copyFor
            /\ UNCHANGED place
    /\ UNCHANGED <<holder, content, faults>>

-----------------------------------------------------------------------------
(***************************************************************************)
(* CopyReservationSecrets.  A failure to read the pool, which lists the    *)
(* teams, is only logged: then the team is not found, and nothing is       *)
(* copied.  The first secret that cannot be created, because it exists for *)
(* instance, is an error.                                                  *)
(***************************************************************************)
FindTeam ==
    /\ copyPc = "team"
    /\ \/ UNCHANGED faults /\ Proceed("teamcopy", TeamSecrets) /\ UNCHANGED copyFor
       \/ /\ faults > 0 /\ faults' = faults - 1
          /\ \/ Proceed("update", {}) /\ UNCHANGED copyFor
             \/ Leave
    /\ UNCHANGED <<place, holder, content>>

CopyTeamSecret(s) ==
    /\ copyPc = "teamcopy" /\ s \in todo
    /\ \E result \in Results :
         /\ Call(content[s] = "none", result)
         /\ Store(s, "team", result)
         /\ IF result = "ok"
            THEN todo' = todo \ {s} /\ UNCHANGED <<copyPc, copyFor, replacing, anyFailed>>
            ELSE Leave
    /\ UNCHANGED <<place, holder>>

TeamReturns ==
    /\ copyPc = "teamcopy" /\ todo = {}
    /\ Proceed("update", {})
    /\ UNCHANGED <<place, holder, content, copyFor, faults>>

(***************************************************************************)
(* The Update with which reserveNamespace takes the namespace.  One that   *)
(* is applied although it seems to fail leaves it to nobody.               *)
(***************************************************************************)
TakeNamespace ==
    /\ copyPc = "update"
    /\ \E result \in Results :
         /\ Call(TRUE, result)
         /\ place' = IF result = "ok" THEN "taken"
                     ELSE IF Applied(result) THEN "wasted" ELSE place
         /\ holder' = IF result = "ok" THEN copyFor ELSE holder
    /\ Leave
    /\ UNCHANGED content

\* The operator dies.  A namespace that was being set up is never finished.
CopyCrash ==
    /\ copyPc # "idle"
    /\ place' = IF place = "new" THEN "wasted" ELSE place
    /\ Leave
    /\ UNCHANGED <<holder, content>>

CopyStep ==
    \/ SetUpSecrets
    \/ \E s \in Secret : \/ CopySecret(s) \/ ReplaceSecret(s) \/ RecreateSecret(s)
                         \/ CopyTeamSecret(s)
    \/ CopyReturns
    \/ FindTeam
    \/ TeamReturns
    \/ TakeNamespace
=============================================================================
