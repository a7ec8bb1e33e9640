----------------------------- MODULE ManagedHost -----------------------------
(***************************************************************************)
(* One computer's managed installation: the daemon (meshlocal.run), and    *)
(* the commands init, start and shutdown, with or without --destroy        *)
(* (onboard), on one private state directory.  What keeps them apart are   *)
(* files: onboarding.lock, the destroy record, the locked role-state file, *)
(* and the nonce that pins a shutdown request to a daemon.  A process may  *)
(* die at any step; what it wrote stays.                                   *)
(***************************************************************************)
EXTENDS TailnetPolicy

CONSTANTS Daemon,       \* daemon processes that may exist at the same time
          Ops,          \* commands the user may give
          MaxRuns,      \* bound on the commands given
          MaxLaunches,  \* bound on the daemons started
          MaxCrashes    \* bound on processes that die

(* DestroyState: what destroy.json holds; its absence is not one of them. *)
DestroyRecords == [device : Nat, policy : BOOLEAN, local : BOOLEAN,
                   deviceRemoved : BOOLEAN, policyRemoved : BOOLEAN]

ASSUME HostAssumption == None \notin DestroyRecords

VARIABLES coordinator,  \* the installation's configured role
          root,         \* the directory exists
          config,       \* config.json exists
          lock,         \* onboarding.lock exists
          roleFile,     \* the role-state.lock file by that name, or 0
          destroy,      \* destroy.json, or None
          identity,     \* mesh-identity.json: the retained device, or 0
          control,      \* runtime-control.json: a nonce, or 0
          request,      \* shutdown-request.json: a nonce, or 0
          tsnet,        \* the network state: the device it belongs to, or 0
          cli, daemon,
          fresh,        \* devices, nonces and role-state files made so far
          runs, launches, crashes,
          raced         \* history: one of the races left open has happened

markerVars == <<identity, control, request, tsnet>>
countVars == <<coordinator, runs, launches, crashes>>
hostVars == <<coordinator, root, config, lock, roleFile, destroy, identity,
              control, request, tsnet, cli, daemon, fresh, runs, launches, crashes>>

NoCli == [op |-> None, pc |-> "idle", file |-> 0, device |-> 0, policy |-> FALSE,
          record |-> None, nonce |-> 0]
Off == [pc |-> "off", file |-> 0, nonce |-> 0]

HostInit ==
    /\ coordinator \in BOOLEAN
    /\ root = FALSE /\ config = FALSE /\ lock = FALSE /\ roleFile = 0
    /\ destroy = None /\ identity = 0 /\ control = 0 /\ request = 0 /\ tsnet = 0
    /\ cli = [p \in Cli |-> NoCli] /\ daemon = [d \in Daemon |-> Off]
    /\ fresh = 0 /\ runs = 0 /\ launches = 0 /\ crashes = 0 /\ raced = FALSE

-----------------------------------------------------------------------------
(* Mutant of Held: the daemon does not lock its file. *)
HeldByCommand(file) == \E p \in Cli : cli[p].file = file

(* lockFile: a file is held through its handle, whatever its name is now. *)
Held(file) == \/ \E d \in Daemon : daemon[d].file = file
              \/ \E p \in Cli : cli[p].file = file
(* IsRunning, RoleStateInUse: the file by that name is held. *)
IsRunning == roleFile # 0 /\ Held(roleFile)
(* AcquireRoleState opens the file, or makes it. *)
RoleFile == IF roleFile # 0 THEN roleFile ELSE fresh + 1
Installed == root /\ (config \/ destroy # None)    \* LoadForCleanup
EmptyDir == /\ ~config /\ ~lock /\ roleFile = 0 /\ destroy = None
            /\ markerVars = <<0, 0, 0, 0>>
            /\ done = 0 /\ ~pending /\ Saved = {}

To(p, pc) == cli' = [cli EXCEPT ![p].pc = pc]
AtCli(p, pc) == cli[p].pc = pc
(* The deferred removal of onboarding.lock ends a command that made it. *)
Fails(p) == To(p, "unlock")
UnchangedFiles == UNCHANGED <<root, config, lock, roleFile, destroy, markerVars, fresh>>
Only(p) == UnchangedFiles /\ UNCHANGED <<daemon, countVars, policyVars>>

Given(p, op) ==
    /\ AtCli(p, "idle") /\ runs < MaxRuns /\ runs' = runs + 1 /\ op \in Ops
    /\ UnchangedFiles /\ UNCHANGED <<coordinator, launches, crashes, daemon>>
Runs(p, op, pc) == cli' = [cli EXCEPT ![p] = [NoCli EXCEPT !.op = op, !.pc = pc]]

(* Run: init or join resumes its configuration or makes it in an empty     *)
(* directory.                                                              *)
Init_(p) ==
    /\ Given(p, "init") /\ UNCHANGED policyVars
    /\ config \/ ~root \/ EmptyDir
    /\ Runs(p, "init", IF config THEN "lock" ELSE "save")

SaveConfig(p) ==
    /\ AtCli(p, "save")
    /\ IF config THEN cli' = [cli EXCEPT ![p] = NoCli] /\ UNCHANGED <<root, config>>
       ELSE config' = TRUE /\ root' = TRUE /\ To(p, "lock")
    /\ UNCHANGED <<lock, roleFile, destroy, markerVars, fresh, daemon, countVars, policyVars>>

Start(p) ==
    /\ Given(p, "start") /\ UNCHANGED policyVars
    /\ config /\ Runs(p, "start", "lock")

Stop(p) ==
    /\ Given(p, "stop") /\ UNCHANGED policyVars
    /\ Installed /\ Runs(p, "stop", "stop")

(* ResolveManagedIdentity: the destroy record's device, the retained one,  *)
(* or that of a ready daemon.                                              *)
ManagedIdentity ==
    IF destroy # None THEN destroy.device
    ELSE IF identity # 0 THEN identity
    ELSE IF \E d \in Daemon : daemon[d].pc = "ready" THEN tsnet ELSE 0

Destroy(p, removePolicy) ==
    /\ Given(p, "destroy") /\ UNCHANGED policyVars
    /\ Installed /\ (removePolicy => coordinator)
    /\ coordinator => ManagedIdentity # 0
    /\ cli' = [cli EXCEPT ![p] = [NoCli EXCEPT !.op = "destroy", !.pc = "lock",
                    !.device = IF coordinator THEN ManagedIdentity ELSE 0,
                    !.policy = removePolicy]]

(* setup tailnet -apply, and policy cleanup, which need no installation. *)
Tailnet(p, kind) ==
    /\ Given(p, kind)
    /\ Runs(p, kind, "tailnet")
    /\ Begin(p, kind, IF kind = "setup" THEN "setup" ELSE "prepare", None)

TailnetEnds(p) ==
    /\ AtCli(p, "tailnet") /\ job[p].out # None
    /\ cli' = [cli EXCEPT ![p] = NoCli]
    /\ Only(p)

-----------------------------------------------------------------------------
Lock(p) ==
    /\ AtCli(p, "lock")
    /\ IF lock \/ ~root THEN cli' = [cli EXCEPT ![p] = NoCli] /\ UNCHANGED lock
       ELSE lock' = TRUE /\ To(p, IF cli[p].op = "destroy" THEN "record" ELSE "check")
    /\ UNCHANGED <<root, config, roleFile, destroy, markerVars, fresh, daemon,
                   countVars, policyVars>>

Unlock(p) ==
    /\ AtCli(p, "unlock") /\ lock' = FALSE
    /\ cli' = [cli EXCEPT ![p] = NoCli]
    /\ UNCHANGED <<root, config, roleFile, destroy, markerVars, fresh, daemon,
                   countVars, policyVars>>

(* CheckNotDestroying; init then sees to the policy, start requires it. *)
Check(p) ==
    /\ AtCli(p, "check")
    /\ \/ /\ destroy = None /\ coordinator /\ cli[p].op = "init"
          /\ To(p, "policy") /\ Begin(p, "init", "markers", None)
       \/ /\ destroy = None /\ (coordinator => cli[p].op = "start" /\ done # 0)
          /\ To(p, "launch") /\ UNCHANGED policyVars
       \/ /\ destroy # None \/ (coordinator /\ cli[p].op = "start" /\ done = 0)
          /\ Fails(p) /\ UNCHANGED policyVars
    /\ UnchangedFiles /\ UNCHANGED <<daemon, countVars>>

PolicyDone(p) ==
    /\ AtCli(p, "policy") /\ job[p].out # None
    /\ To(p, IF job[p].out = "ok" THEN "launch" ELSE "unlock")
    /\ Only(p)

(* launchAndWait: no second daemon next to a running one.  The wait for    *)
(* readiness may end at any time.                                          *)
Launch(p) ==
    /\ AtCli(p, "launch")
    /\ To(p, "unlock")
    /\ \/ IsRunning /\ UNCHANGED <<daemon, launches>>
       \/ /\ ~IsRunning /\ launches < MaxLaunches /\ launches' = launches + 1
          /\ \E d \in Daemon : /\ daemon[d] = Off
                               /\ daemon' = [daemon EXCEPT ![d].pc = "load"]
    /\ UnchangedFiles /\ UNCHANGED <<coordinator, runs, crashes, policyVars>>

-----------------------------------------------------------------------------
(***************************************************************************)
(* Shutdown --destroy.                                                     *)
(***************************************************************************)
NewRecord(p) ==
    [device |-> cli[p].device, policy |-> cli[p].policy, local |-> ~coordinator,
     deviceRemoved |-> FALSE, policyRemoved |-> FALSE]

(* An earlier attempt is resumed, for the same device and choice. *)
ReadRecord(p) ==
    /\ AtCli(p, "record")
    /\ IF \/ ~Installed
          \/ destroy # None /\ (destroy.device # cli[p].device \/ destroy.policy # cli[p].policy)
       THEN Fails(p)
       ELSE cli' = [cli EXCEPT
              ![p].record = IF destroy = None THEN NewRecord(p) ELSE destroy,
              ![p].pc = IF coordinator THEN "remote" ELSE "intent"]
    /\ Only(p)

(* prepareRemoteCleanup: what is to be removed, before anything is. *)
Preflight(p) ==
    /\ AtCli(p, "remote")
    /\ \/ Fails(p) /\ UNCHANGED policyVars
       \/ /\ ~cli[p].policy /\ To(p, "intent") /\ UNCHANGED policyVars
       \/ /\ cli[p].policy /\ To(p, "plan")
          /\ Begin(p, "remove", "prepare", cli[p].device)
    /\ UnchangedFiles /\ UNCHANGED <<daemon, countVars>>

PlanReady(p) ==
    /\ AtCli(p, "plan") /\ (job[p].out # None \/ job[p].pc = "planned")
    /\ To(p, IF job[p].out = None THEN "intent" ELSE "unlock")
    /\ Only(p)

(* SaveDestroyState, before the daemon is stopped and after each removal. *)
NextAfterSave(p) ==
    CASE AtCli(p, "intent")     -> "stop"
      [] AtCli(p, "gone")       -> IF cli[p].policy THEN "removal" ELSE "purge"
      [] AtCli(p, "policyGone") -> "purge"
SaveRecord(p) ==
    /\ cli[p].pc \in {"intent", "gone", "policyGone"}
    /\ \/ Fails(p) /\ UNCHANGED destroy
       \/ /\ root
          /\ destroy' = [cli[p].record EXCEPT
                            !.deviceRemoved = @ \/ cli[p].pc = "gone",
                            !.policyRemoved = @ \/ cli[p].pc = "policyGone"]
          /\ cli' = [cli EXCEPT ![p].record = destroy', ![p].pc = NextAfterSave(p)]
    /\ UNCHANGED <<root, config, lock, roleFile, markerVars, fresh, daemon,
                   countVars, policyVars>>

(***************************************************************************)
(* meshlocal.Shutdown: the request carries the nonce read from the running *)
(* daemon, and waits until that daemon holds its guard no more.            *)
(***************************************************************************)
Gives(p) == IF cli[p].op = "stop" THEN cli' = [cli EXCEPT ![p] = NoCli] ELSE Fails(p)

ReadControl(p) ==
    /\ AtCli(p, "stop")
    /\ IF ~IsRunning THEN To(p, "stopped")
       ELSE IF control = 0 THEN Gives(p)          \* no cooperative daemon
       ELSE cli' = [cli EXCEPT ![p].nonce = control, ![p].pc = "request"]
    /\ Only(p)

RequestStop(p) ==
    /\ AtCli(p, "request")
    /\ IF root THEN request' = cli[p].nonce /\ To(p, "await")
       ELSE UNCHANGED request /\ Gives(p)
    /\ UNCHANGED <<root, config, lock, roleFile, destroy, identity, control, tsnet,
                   fresh, daemon, countVars, policyVars>>

AwaitStop(p) ==
    /\ AtCli(p, "await")
    /\ \/ ~IsRunning /\ To(p, "stopped")
       \/ IsRunning /\ Gives(p)                   \* replaced, or no time left
    /\ Only(p)

(* RecordStopped holds the guard while it writes the status. *)
RecordStopped(p) ==
    /\ AtCli(p, "stopped")
    /\ IF IsRunning \/ ~root
       THEN Gives(p) /\ UNCHANGED <<roleFile, fresh>>
       ELSE /\ roleFile' = RoleFile
            /\ fresh' = IF roleFile = 0 THEN fresh + 1 ELSE fresh
            /\ IF cli[p].op = "stop" THEN cli' = [cli EXCEPT ![p] = NoCli]
               ELSE To(p, IF coordinator THEN "delete" ELSE "purge")
    /\ UNCHANGED <<root, config, lock, destroy, markerVars, daemon, countVars, policyVars>>

(* A deletion that is not confirmed ends the command. *)
Confirmed == {TRUE, FALSE}
RemoveDevice(p) ==
    /\ AtCli(p, "delete")
    /\ \E sure \in Confirmed :
         /\ DeleteDevice(cli[p].device, sure)
         /\ To(p, IF sure THEN "gone" ELSE "unlock")
    /\ UnchangedFiles /\ UNCHANGED <<daemon, countVars, job>>

RemovePolicy(p) ==
    /\ AtCli(p, "removal") /\ job' = StartRemoval(p) /\ To(p, "removing")
    /\ UnchangedFiles /\ UNCHANGED <<daemon, countVars, tailnetVars, fileVars>>

PolicyRemoved(p) ==
    /\ AtCli(p, "removing") /\ job[p].out # None
    /\ To(p, IF job[p].out = "ok" THEN "policyGone" ELSE "unlock")
    /\ Only(p)

-----------------------------------------------------------------------------
(***************************************************************************)
(* PurgeManaged.                                                           *)
(***************************************************************************)
MayPurge == /\ destroy # None
            /\ destroy.local \/ (destroy.deviceRemoved /\ (destroy.policy => destroy.policyRemoved))
Purge(p) ==
    /\ AtCli(p, "purge")
    /\ IF ~root \/ ~MayPurge \/ IsRunning THEN Fails(p) /\ UNCHANGED <<roleFile, fresh>>
       ELSE /\ roleFile' = RoleFile
            /\ fresh' = IF roleFile = 0 THEN fresh + 1 ELSE fresh
            /\ cli' = [cli EXCEPT ![p].file = roleFile', ![p].pc = "wipe"]
    /\ UNCHANGED <<root, config, lock, destroy, markerVars, daemon, countVars, policyVars>>

(* The first walk spares the locks, the configuration and the record; it   *)
(* comes to the identity and onboarding.lock before the rest.              *)
Wipe(p) ==
    /\ AtCli(p, "wipe") /\ To(p, "wipeState")
    /\ identity' = 0 /\ lock' = FALSE
    /\ UNCHANGED <<root, config, roleFile, destroy, control, request, tsnet, fresh,
                   daemon, countVars, policyVars>>

WipeState(p) ==
    /\ AtCli(p, "wipeState") /\ To(p, "wipeConfig")
    /\ control' = 0 /\ request' = 0 /\ tsnet' = 0 /\ WipePolicyFiles
    /\ UNCHANGED <<root, config, lock, roleFile, destroy, identity, fresh, daemon, countVars>>

(* The configuration goes before the guard does. *)
WipeConfig(p) ==
    /\ AtCli(p, "wipeConfig") /\ config' = FALSE
    /\ cli' = [cli EXCEPT ![p].file = 0, ![p].pc = "wipeRest"]
    /\ UNCHANGED <<root, lock, roleFile, destroy, markerVars, fresh, daemon,
                   countVars, policyVars>>

WipeRest(p) ==
    /\ AtCli(p, "wipeRest") /\ To(p, "wipeRecord")
    /\ config' = FALSE /\ lock' = FALSE /\ roleFile' = 0
    /\ identity' = 0 /\ control' = 0 /\ request' = 0 /\ tsnet' = 0 /\ WipePolicyFiles
    /\ UNCHANGED <<root, destroy, fresh, daemon, countVars>>

WipeRecord(p) ==
    /\ AtCli(p, "wipeRecord") /\ destroy' = None
    /\ To(p, IF destroy = None THEN "unlock" ELSE "wipeRoot")
    /\ UNCHANGED <<root, config, lock, roleFile, markerVars, fresh, daemon,
                   countVars, policyVars>>

WipeRoot(p) ==
    /\ AtCli(p, "wipeRoot") /\ To(p, "unlock")
    /\ root' = (root /\ ~EmptyDir)
    /\ UNCHANGED <<config, lock, roleFile, destroy, markerVars, fresh, daemon,
                   countVars, policyVars>>

-----------------------------------------------------------------------------
(***************************************************************************)
(* The daemon, meshlocal.run.                                              *)
(***************************************************************************)
Active(d) == daemon[d].pc \in {"monitor", "network", "retain", "ready", "stopping"}
AtDaemon(d, pc) == daemon[d].pc = pc
Becomes(d, pc) == daemon' = [daemon EXCEPT ![d].pc = pc]
OnlyDaemon == UnchangedFiles /\ UNCHANGED <<cli, countVars, policyVars>>

LoadConfig(d) ==
    /\ AtDaemon(d, "load")
    /\ daemon' = [daemon EXCEPT ![d] = IF config THEN [@ EXCEPT !.pc = "guard"] ELSE Off]
    /\ OnlyDaemon

(* PrepareRoleState makes the directory if it has to. *)
TakeGuard(d) ==
    /\ AtDaemon(d, "guard")
    /\ IF IsRunning THEN daemon' = [daemon EXCEPT ![d] = Off] /\ UNCHANGED <<root, roleFile, fresh>>
       ELSE /\ root' = TRUE /\ roleFile' = RoleFile
            /\ fresh' = IF roleFile = 0 THEN fresh + 1 ELSE fresh
            /\ daemon' = [daemon EXCEPT ![d].file = roleFile', ![d].pc = "check"]
    /\ UNCHANGED <<config, lock, destroy, markerVars, cli, countVars, policyVars>>

(* Under the guard: not while being destroyed, and the configuration must  *)
(* still be there.                                                         *)
MayRun == destroy = None /\ config
CheckAgain(d) ==
    /\ AtDaemon(d, "check")
    /\ daemon' = [daemon EXCEPT ![d] = IF MayRun THEN [@ EXCEPT !.pc = "monitor"] ELSE Off]
    /\ OnlyDaemon

StartMonitor(d) ==
    /\ AtDaemon(d, "monitor") /\ root
    /\ fresh' = fresh + 1 /\ control' = fresh'
    /\ daemon' = [daemon EXCEPT ![d].nonce = fresh', ![d].pc = "network"]
    /\ UNCHANGED <<root, config, lock, roleFile, destroy, identity, request, tsnet,
                   cli, countVars, policyVars>>

(* The coordinator's policy must be complete; the network state's device   *)
(* is resumed, or one enrolled.                                            *)
StartNetwork(d) ==
    /\ AtDaemon(d, "network") /\ root
    /\ coordinator => done # 0
    /\ IF tsnet # 0 /\ tsnet \in enrolled THEN UNCHANGED <<tsnet, fresh, enrolled>>
       ELSE /\ fresh' = fresh + 1 /\ tsnet' = fresh'
            /\ enrolled' = enrolled \cup {fresh'}
    /\ Becomes(d, "retain")
    /\ UNCHANGED <<root, config, lock, roleFile, destroy, identity, control, request, cli,
                   countVars, acl, etag, authKeys, late, others, edits, fileVars, job>>

RetainIdentity(d) ==
    /\ AtDaemon(d, "retain") /\ root
    /\ IF identity \in {0, tsnet} THEN identity' = tsnet /\ Becomes(d, "ready")
       ELSE UNCHANGED identity /\ Becomes(d, "stopping")
    /\ UNCHANGED <<root, config, lock, roleFile, destroy, control, request, tsnet, fresh,
                   cli, countVars, policyVars>>

(* The monitor sees a request for this daemon, or the daemon fails. *)
Stops(d) ==
    /\ daemon[d].pc \in {"monitor", "network", "retain", "ready"}
    /\ \/ daemon[d].nonce # 0 /\ request = daemon[d].nonce
       \/ crashes < MaxCrashes
    /\ crashes' = IF request = daemon[d].nonce THEN crashes ELSE crashes + 1
    /\ Becomes(d, "stopping")
    /\ UnchangedFiles /\ UNCHANGED <<cli, coordinator, runs, launches, policyVars>>

ReleaseGuard(d) ==
    /\ AtDaemon(d, "stopping")
    /\ daemon' = [daemon EXCEPT ![d] = Off]
    /\ OnlyDaemon

-----------------------------------------------------------------------------
(***************************************************************************)
(* A process dies.  The user removes a lock that no command is using.      *)
(***************************************************************************)
DaemonDies(d) ==
    /\ daemon[d].pc # "off" /\ crashes < MaxCrashes /\ crashes' = crashes + 1
    /\ daemon' = [daemon EXCEPT ![d] = Off]
    /\ UnchangedFiles /\ UNCHANGED <<cli, coordinator, runs, launches, policyVars>>

CliDies(p) ==
    /\ ~AtCli(p, "idle") /\ crashes < MaxCrashes /\ crashes' = crashes + 1
    /\ cli' = [cli EXCEPT ![p] = NoCli]
    /\ job' = [job EXCEPT ![p] = NoJob]
    /\ UnchangedFiles
    /\ UNCHANGED <<daemon, coordinator, runs, launches, tailnetVars, fileVars>>

ClearLock ==
    /\ lock /\ lock' = FALSE
    /\ \A p \in Cli : cli[p].pc \in {"idle", "tailnet"}
    /\ UNCHANGED <<root, config, roleFile, destroy, markerVars, fresh, cli, daemon,
                   countVars, policyVars>>

CliStep(p) ==
    \/ Init_(p) \/ SaveConfig(p) \/ Start(p) \/ Stop(p)
    \/ \E removePolicy \in BOOLEAN : Destroy(p, removePolicy)
    \/ \E kind \in {"setup", "cleanup"} : Tailnet(p, kind)
    \/ TailnetEnds(p) \/ Lock(p) \/ Unlock(p) \/ Check(p) \/ PolicyDone(p) \/ Launch(p)
    \/ ReadRecord(p) \/ Preflight(p) \/ PlanReady(p) \/ SaveRecord(p)
    \/ ReadControl(p) \/ RequestStop(p) \/ AwaitStop(p) \/ RecordStopped(p)
    \/ RemoveDevice(p) \/ RemovePolicy(p) \/ PolicyRemoved(p)
    \/ Purge(p) \/ Wipe(p) \/ WipeState(p) \/ WipeConfig(p) \/ WipeRest(p)
    \/ WipeRecord(p) \/ WipeRoot(p) \/ CliDies(p)

DaemonStep(d) ==
    \/ LoadConfig(d) \/ TakeGuard(d) \/ CheckAgain(d) \/ StartMonitor(d)
    \/ StartNetwork(d) \/ RetainIdentity(d) \/ Stops(d) \/ ReleaseGuard(d)
    \/ DaemonDies(d)

(* Files are written into an existing directory only. *)
HostActions ==
    \/ \E p \in Cli : CliStep(p)
    \/ \E d \in Daemon : DaemonStep(d)
    \/ ClearLock
    \/ /\ \E p \in Cli : PolicyStep(p)
       /\ root \/ <<done, pending, applies>>' = <<done, pending, applies>>
       /\ UNCHANGED hostVars
    \/ TailnetStep /\ UNCHANGED hostVars

(***************************************************************************)
(* Two races that the files do not exclude.  The purge removes             *)
(* onboarding.lock with the rest, and its command then the lock of whoever *)
(* has it by then (teardown.go:366, shutdown.go:114): two commands may     *)
(* destroy at once, or one look its device up while the other still purges *)
(* (Overlap).  And it lets go of the role state before it unlinks that     *)
(* file: a daemon may open the old file and run on it unseen, once a new   *)
(* configuration is there (Unseen).                                        *)
(***************************************************************************)
Destroying(c) == c.op = "destroy" /\ c.pc # "idle"
Erasing == {"wipe", "wipeState", "wipeConfig", "wipeRest", "wipeRecord"}
(* From the lock to the last file. *)
AtWork(c) == Destroying(c) /\ c.pc \notin {"lock", "wipeRoot", "unlock"}

Overlap == \E p, q \in Cli :
    /\ p # q /\ AtWork(cli[p])
    /\ \/ AtWork(cli[q])
       \/ cli[p].pc \in Erasing /\ Destroying(cli[q]) /\ cli[q].pc = "lock"
Unseen == \E d \in Daemon : Active(d) /\ daemon[d].file # roleFile

HostNext == HostActions /\ raced' = (raced \/ (Overlap \/ Unseen)')

HostSpec == HostInit /\ PolicyInit /\ [][HostNext]_<<hostVars, policyVars, raced>>

-----------------------------------------------------------------------------
(***************************************************************************)
(* Destruction, whatever interrupts it.  A record that says the device is  *)
(* removed, which is what lets the purge begin, is true in every history.  *)
(* The rest is promised only as long as neither of the two races above has *)
(* happened: a device that a coordinator enrolled is still named by its    *)
(* network state, its retained identity or the destroy record as long as   *)
(* it is enrolled, so cleanup can be resumed (teardown.go:329); and no     *)
(* daemon holds the guard without a configuration, or once its device is   *)
(* recorded as removed (runtime.go:117).                                   *)
(***************************************************************************)
Recoverable(k) ==
    tsnet = k \/ identity = k \/ (destroy # None /\ destroy.device = k)

DestroySafe ==
    /\ coordinator /\ destroy # None /\ destroy.deviceRemoved => destroy.device \notin enrolled
    /\ ~raced =>
         /\ coordinator => \A k \in enrolled \ {0} : Recoverable(k)
         /\ \A d \in Daemon : Active(d) /\ daemon[d].file = roleFile =>
              /\ config
              /\ destroy # None => ~destroy.deviceRemoved

(***************************************************************************)
(* docs/operator-guide.md:325: "On the controller, `--destroy` removes its *)
(* exact Tailscale device, then deletes its managed configuration,         *)
(* databases, journals and tsnet state."  So what is deleted never was the *)
(* last to name a device that is still enrolled.  It is not so without the *)
(* exception made above: a command that found the device of one            *)
(* installation, and waits for its user (shutdown.go:94, 106), goes on to  *)
(* delete the state of the next.                                           *)
(***************************************************************************)
RecoveryRetained == coordinator => \A k \in enrolled \ {0} : Recoverable(k)

=============================================================================
