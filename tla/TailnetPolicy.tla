---------------------------- MODULE TailnetPolicy ----------------------------
(***************************************************************************)
(* The tailnet's access policy and devices, and the commands that change   *)
(* them from this host: the policy part of init (onboard.configurePolicy,  *)
(* setup.runNative), the setup command with its enrollment keys, and the   *)
(* removal of the mesh policy and of the managed device (deinitnet).       *)
(* A policy is the set of its entries.  A request to the Tailscale API     *)
(* may be rejected, answered, or lost; a lost one may still take effect,   *)
(* at once or after the client has given up.                               *)
(***************************************************************************)
EXTENDS Naturals, Sequences, FiniteSets

CONSTANTS Cli,          \* commands that may run at the same time
          Foreign,      \* policy entries that have nothing to do with the mesh
          KeyIds,       \* enrollment keys one setup command asks for
          MaxEdits,     \* bound on the changes other people make
          None

(***************************************************************************)
(* Entries that mergePolicy adds and PrepareMeshPolicyRemoval takes away,  *)
(* and one that mixes a mesh role with something else.                     *)
(***************************************************************************)
Mesh == {"tagOwners", "grants"}
Entries == Mesh \cup Foreign \cup {"mixed"}

(***************************************************************************)
(* Where a command's work on the policy may be, by what it is about, and   *)
(* what it may say when it ends.                                           *)
(***************************************************************************)
InitPlaces   == {"markers", "reconcile", "forget", "preview", "confirm", "apply",
                 "propose", "complete", "clear"}
SetupPlaces  == {"setup", "keys", "revoke"}
RemovePlaces == {"prepare", "depend", "planned", "recheck", "readback"}
Places   == InitPlaces \cup SetupPlaces \cup RemovePlaces \cup {"post"}
Outcomes == {"ok", "error", "unrevoked"}

ASSUME PolicyAssumption ==
    /\ None \notin Places \cup Outcomes
    /\ \A policy \in SUBSET Entries : policy # None

VARIABLES acl,          \* the live policy
          etag,         \* its version
          enrolled,     \* devices with a mesh role; 0 is another host's
          authKeys,     \* <<command, key>>: enrollment keys that are valid
          late,         \* requests whose effect is still to come
          others,       \* what other people want besides the mesh entries
          edits,        \* their changes so far
          done,         \* policy-complete: 0, or the apply it names
          pending,      \* policy-apply-pending
          applies,      \* policy-preview-*/apply: saved policies, kept until purged
          lived,        \* applies whose proposal has been the live policy
          job           \* what each command is doing to the policy

tailnetVars == <<acl, etag, enrolled, authKeys, late, others, edits>>
fileVars == <<done, pending, applies, lived>>
policyVars == <<acl, etag, enrolled, authKeys, late, others, edits,
                done, pending, applies, lived, job>>

NoJob == [kind |-> None, pc |-> None, out |-> None, seen |-> {}, tag |-> 0,
          want |-> {}, spare |-> None, apply |-> 0, clean |-> FALSE,
          keys |-> {}]

mergePolicy(p) == p \cup Mesh
HasMesh(p) == p \cap Mesh # {}

PolicyInit ==
    /\ acl \in {{}, Mesh} /\ etag = 0 /\ enrolled = {} /\ authKeys = {}
    /\ late = {} /\ others = {} /\ edits = 0
    /\ done = 0 /\ pending = FALSE /\ applies = <<>> /\ lived = {}
    /\ job = [p \in Cli |-> NoJob]

-----------------------------------------------------------------------------
(***************************************************************************)
(* The service.                                                            *)
(***************************************************************************)
Proposals(p) == {k \in 1..Len(applies) : applies[k].proposed = p}

(* The applies whose files are still there. *)
Saved == {k \in 1..Len(applies) : applies[k].kept}

(* The policy becomes new; jobs is what becomes of the commands. *)
Publish(new, jobs) ==
    /\ acl' = new /\ etag' = etag + 1
    /\ lived' = lived \cup Proposals(new)
    /\ job' = [p \in Cli |-> [jobs[p] EXCEPT !.clean = @ \/ ~HasMesh(new)]]

OutsideEdit(e) ==
    /\ edits < MaxEdits /\ edits' = edits + 1
    /\ LET new == IF e \in acl THEN acl \ {e} ELSE acl \cup {e}
       IN  Publish(new, job) /\ others' = new \ Mesh
    /\ UNCHANGED <<enrolled, authKeys, late, done, pending, applies>>

(* Another host joins the mesh, or leaves it. *)
OtherDevice ==
    /\ edits < MaxEdits /\ edits' = edits + 1
    /\ enrolled' = IF 0 \in enrolled THEN enrolled \ {0} ELSE enrolled \cup {0}
    /\ UNCHANGED <<acl, etag, authKeys, late, others, fileVars, job>>

(* Mutant of Matches: the update is not conditional. *)
Unconditional(tag) == TRUE

(* If-Match: an update of another version than the one read is refused. *)
Matches(tag) == tag = etag

LateEffect(r) ==
    /\ r \in late /\ late' = late \ {r}
    /\ IF r.kind = "device"
       THEN /\ enrolled' = enrolled \ {r.device}
            /\ UNCHANGED <<acl, etag, lived, job>>
       ELSE /\ Matches(r.tag)
            /\ Publish(r.want, job) /\ UNCHANGED enrolled
    /\ UNCHANGED <<authKeys, others, edits, done, pending, applies>>

-----------------------------------------------------------------------------
(***************************************************************************)
(* Steps of a command.                                                     *)
(***************************************************************************)
At(p, pc) == job[p].pc = pc /\ job[p].out = None
Go(p, pc) == [job EXCEPT ![p].pc = pc]
Ends(p, out) == [job EXCEPT ![p].out = out]

Refused(p) == job' = Ends(p, "error") /\ UNCHANGED <<tailnetVars, fileVars>>
Moves(p, pc) == job' = Go(p, pc) /\ UNCHANGED <<tailnetVars, fileVars>>

(* A request that needs an answer and gets none, or a refusal; and a       *)
(* command that is declined, interrupted or cannot write its files.        *)
GivesUp(p) ==
    /\ job[p].out = None
    /\ job[p].pc \in {"markers", "reconcile", "preview", "confirm", "apply",
                      "propose", "complete", "clear", "forget", "setup",
                      "prepare", "depend", "recheck"}
    /\ Refused(p)

(* configurePolicy: what the markers of earlier runs say. *)
ReadMarkers(p) ==
    /\ At(p, "markers")
    /\ IF pending THEN Moves(p, "reconcile")
       ELSE IF done # 0
            THEN job' = Ends(p, "ok") /\ UNCHANGED <<tailnetVars, fileVars>>
            ELSE Moves(p, "preview")

(* reconcilePendingPolicy: a read decides whether the old apply is absent  *)
(* or complete, given the one saved apply.                                 *)
SoleApply(k) == Saved = {k} /\ applies[k].proposed # None
ReconcilePending(p) ==
    /\ At(p, "reconcile")
    /\ \/ ~(\E k \in Saved : SoleApply(k)) /\ Refused(p)
       \/ \E k \in Saved :
            /\ SoleApply(k)
            /\ IF acl = applies[k].before
               THEN IF done # 0 THEN Refused(p) ELSE Moves(p, "forget")
               ELSE IF acl = applies[k].proposed
                    THEN /\ job' = [Go(p, "complete") EXCEPT ![p].apply = k]
                         /\ UNCHANGED <<tailnetVars, fileVars>>
                    ELSE Refused(p)

(* removePendingMarker: another command may have removed it. *)
ForgetPending(p) ==
    /\ At(p, "forget")
    /\ IF ~pending THEN Refused(p)
       ELSE /\ pending' = FALSE /\ job' = Go(p, "preview")
            /\ UNCHANGED <<tailnetVars, done, applies, lived>>

(* The preview; the user then reviews it. *)
Preview(p) ==
    /\ At(p, "preview")
    /\ job' = [Go(p, "confirm") EXCEPT ![p].seen = acl]
    /\ UNCHANGED <<tailnetVars, fileVars>>

Confirm(p) ==
    /\ At(p, "confirm")
    /\ IF pending THEN Refused(p)
       ELSE /\ pending' = TRUE /\ job' = Go(p, "apply")
            /\ UNCHANGED <<tailnetVars, done, applies, lived>>

(* runNative with Apply: read again, refuse another policy than the        *)
(* reviewed one, save it, save the proposal, and only then update.         *)
SaveBackup(p) ==
    /\ At(p, "apply")
    /\ IF acl # job[p].seen THEN Refused(p)
       ELSE /\ applies' = Append(applies, [before |-> acl, proposed |-> None, kept |-> TRUE])
            /\ job' = [Go(p, "propose") EXCEPT
                           ![p].tag = etag, ![p].want = mergePolicy(acl),
                           ![p].apply = Len(applies) + 1]
            /\ lived' = lived \cup (IF mergePolicy(acl) = acl THEN {Len(applies) + 1} ELSE {})
            /\ UNCHANGED <<tailnetVars, done, pending>>

SaveProposal(p) ==
    /\ At(p, "propose") /\ job[p].apply \in Saved
    /\ applies' = [applies EXCEPT ![job[p].apply].proposed = job[p].want]
    /\ lived' = IF acl = job[p].want THEN lived \cup {job[p].apply} ELSE lived
    /\ job' = Go(p, IF job[p].want = applies[job[p].apply].before
                    THEN "complete" ELSE "post")
    /\ UNCHANGED <<tailnetVars, done, pending>>

(* A command begins its part of the work on the policy.  Keys of an        *)
(* earlier setup are not followed any longer.                              *)
Begin(p, kind, pc, spare) ==
    /\ job' = [job EXCEPT ![p] = [NoJob EXCEPT !.kind = kind, !.pc = pc, !.spare = spare]]
    /\ authKeys' = {a \in authKeys : a[1] # p}
    /\ UNCHANGED <<acl, etag, enrolled, late, others, edits, fileVars>>

(* The setup command: the same merge without preview or markers. *)
Setup(p) ==
    /\ At(p, "setup")
    /\ job' = [Go(p, IF mergePolicy(acl) = acl THEN "keys" ELSE "post") EXCEPT
                   ![p].tag = etag, ![p].want = mergePolicy(acl)]
    /\ UNCHANGED <<tailnetVars, fileVars>>

(* Where a command goes once its update is known to have taken effect, and *)
(* once it has no such answer.                                             *)
Updated(p) ==
    CASE job[p].kind = "init"  -> Go(p, "complete")
      [] job[p].kind = "setup" -> Go(p, "keys")
      [] OTHER                 -> Ends(p, "ok")
Unanswered(p) ==
    IF job[p].kind \in {"init", "setup"} THEN Ends(p, "error") ELSE Go(p, "readback")

(* The conditional update: done, refused, or its answer lost with the      *)
(* effect on either side of the client's giving up.                        *)
Post(p) ==
    /\ At(p, "post")
    /\ \/ /\ Matches(job[p].tag)
          /\ Publish(job[p].want, Updated(p)) /\ UNCHANGED late
       \/ job' = Ends(p, "error") /\ UNCHANGED <<acl, etag, lived, late>>
       \/ /\ Matches(job[p].tag)
          /\ Publish(job[p].want, Unanswered(p)) /\ UNCHANGED late
       \/ /\ late' = late \cup {[kind |-> "policy", tag |-> job[p].tag,
                                 want |-> job[p].want]}
          /\ job' = Unanswered(p) /\ UNCHANGED <<acl, etag, lived>>
    /\ UNCHANGED <<enrolled, authKeys, others, edits, done, pending, applies>>

(* writePolicyComplete: the receipt names the apply; another one stands. *)
RecordComplete(p) ==
    /\ At(p, "complete")
    /\ IF done \notin {0, job[p].apply} THEN Refused(p)
       ELSE /\ done' = job[p].apply /\ job' = Go(p, "clear")
            /\ UNCHANGED <<tailnetVars, pending, applies, lived>>

ClearPending(p) ==
    /\ At(p, "clear") /\ pending' = FALSE
    /\ job' = Ends(p, IF pending THEN "ok" ELSE "error")
    /\ UNCHANGED <<tailnetVars, done, applies, lived>>

-----------------------------------------------------------------------------
(***************************************************************************)
(* createRoleKeys: one key after the other; after a failure the keys known *)
(* so far are revoked.                                                     *)
(***************************************************************************)
CreateKey(p) ==
    /\ At(p, "keys")
    /\ \/ /\ job[p].keys = KeyIds
          /\ job' = Ends(p, "ok") /\ UNCHANGED authKeys
       \/ \E k \in KeyIds \ job[p].keys :
            /\ authKeys' = authKeys \cup {<<p, k>>}
            /\ \/ job' = [job EXCEPT ![p].keys = @ \cup {k}]
               \/ job' = [Go(p, "revoke") EXCEPT ![p].keys = @ \cup {k}]
               \/ job' = Go(p, "revoke")      \* the answer is lost
       \/ job[p].keys # KeyIds /\ job' = Go(p, "revoke") /\ UNCHANGED authKeys
    /\ UNCHANGED <<acl, etag, enrolled, late, others, edits, fileVars>>

(* The cleanup of createRoleKeys asks for the revocation of every key it   *)
(* knows of; doubt holds the keys for which it has no confirmation.        *)
RevokeOutcome(doubt) == IF doubt # {} THEN "unrevoked" ELSE "error"
RevokeKeys(p) ==
    /\ At(p, "revoke")
    /\ \E doubt \in SUBSET job[p].keys : \E gone \in SUBSET doubt :
         /\ authKeys' = authKeys \ ({p} \X ((job[p].keys \ doubt) \cup gone))
         /\ job' = Ends(p, RevokeOutcome(doubt))
    /\ UNCHANGED <<acl, etag, enrolled, late, others, edits, fileVars>>

-----------------------------------------------------------------------------
(***************************************************************************)
(* Removal.  spare is the retained device, which is still enrolled when    *)
(* the plan is made and must be gone when it is carried out.               *)
(***************************************************************************)
PrepareMeshPolicyRemoval(p) ==
    /\ At(p, "prepare")
    /\ IF "mixed" \in acl THEN Refused(p)
       ELSE /\ job' = [Go(p, "depend") EXCEPT
                          ![p].tag = etag, ![p].want = acl \ Mesh,
                          ![p].seen = acl, ![p].clean = ~HasMesh(acl)]
            /\ UNCHANGED <<tailnetVars, fileVars>>

HasChanges(p) == job[p].want # job[p].seen

(* CheckPolicyDependencies before anything is changed; policy cleanup has  *)
(* nothing more to do for a clean policy, and asks before it goes on.      *)
CheckDependencies(p) ==
    /\ At(p, "depend")
    /\ IF HasChanges(p) /\ enrolled \ {job[p].spare} # {} THEN Refused(p)
       ELSE IF job[p].kind = "cleanup" /\ ~HasChanges(p)
            THEN job' = Ends(p, "ok") /\ UNCHANGED <<tailnetVars, fileVars>>
            ELSE Moves(p, IF job[p].kind = "cleanup" THEN "recheck" ELSE "planned")

(* ApplyPolicy: one attempt; a plan without changes only reads. *)
StartRemoval(p) == [job EXCEPT ![p].pc = IF HasChanges(p) THEN "recheck" ELSE "readback"]

RecheckDependencies(p) ==
    /\ At(p, "recheck")
    /\ IF enrolled # {} THEN Refused(p) ELSE Moves(p, "post")

(* ReconcilePolicy: one read that may confirm the removal. *)
ReadBack(p) ==
    /\ At(p, "readback")
    /\ \/ /\ acl = job[p].want
          /\ job' = Ends(p, "ok") /\ UNCHANGED <<tailnetVars, fileVars>>
       \/ Refused(p)

(* DeleteDevice of the retained device: the outcomes it may report.        *)
DeleteDevice(id, confirmed) ==
    /\ \/ id \notin enrolled /\ confirmed /\ UNCHANGED <<enrolled, late>>
       \/ id \in enrolled /\ confirmed /\ enrolled' = enrolled \ {id}
          /\ UNCHANGED late
       \/ ~confirmed /\ UNCHANGED <<enrolled, late>>
       \/ id \in enrolled /\ ~confirmed /\ enrolled' = enrolled \ {id}
          /\ UNCHANGED late
       \/ id \in enrolled /\ ~confirmed /\ UNCHANGED enrolled
          /\ late' = late \cup {[kind |-> "device", device |-> id]}
    /\ UNCHANGED <<acl, etag, authKeys, others, edits, fileVars>>

(* A purge takes the files; the names of the previews are not used again. *)
WipePolicyFiles ==
    /\ done' = 0 /\ pending' = FALSE
    /\ applies' = [k \in 1..Len(applies) |-> [applies[k] EXCEPT !.kept = FALSE]]
    /\ UNCHANGED <<tailnetVars, lived, job>>

PolicyStep(p) ==
    \/ GivesUp(p) \/ ReadMarkers(p) \/ ReconcilePending(p) \/ ForgetPending(p)
    \/ Preview(p) \/ Confirm(p) \/ SaveBackup(p) \/ SaveProposal(p) \/ Setup(p)
    \/ Post(p) \/ RecordComplete(p) \/ ClearPending(p)
    \/ CreateKey(p) \/ RevokeKeys(p)
    \/ PrepareMeshPolicyRemoval(p) \/ CheckDependencies(p)
    \/ RecheckDependencies(p) \/ ReadBack(p)

TailnetStep ==
    \/ \E e \in Entries : OutsideEdit(e)
    \/ OtherDevice
    \/ \E r \in late : LateEffect(r)

-----------------------------------------------------------------------------
(***************************************************************************)
(* What the commands do to the tailnet and what they say of it: nobody     *)
(* else's change is lost, whatever was read before it and posted after it  *)
(* (native.go:203, policy.go:243); the completion receipt names a proposal *)
(* that has been the live policy (policy_recovery.go:63); a removal that   *)
(* succeeds has left a policy without mesh entries (policy.go:260); and a  *)
(* failed setup that does not say so leaves no key it knows of             *)
(* (native.go:471).                                                        *)
(***************************************************************************)
PolicyHonest ==
    /\ acl \ Mesh = others
    /\ done # 0 => done \in lived
    /\ \A p \in Cli :
         /\ job[p].kind \in {"remove", "cleanup"} /\ job[p].out = "ok" => job[p].clean
         /\ job[p].out = "error" /\ job[p].pc = "revoke"
              => \A k \in job[p].keys : <<p, k>> \notin authKeys

=============================================================================
