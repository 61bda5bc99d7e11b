-------------------------------- MODULE Offline --------------------------------
(***************************************************************************)
(* An installation that exchanges files: programs that open and upgrade    *)
(* tasks.db (Upgrade), and the daemons among them, which write documents    *)
(* once they have it open (FileProvider).                                  *)
(***************************************************************************)
EXTENDS Upgrade, FileProvider

ASSUME OfflineAssumption == Daemon \subseteq Process

vars == <<upgradeVars, fileVars>>

TypeOK == UpgradeTypeOK /\ FilesTypeOK

Init == UpgradeInit /\ FilesInit

\* OpenAt, which precedes NewEngine and Run.
OpenStore(p) == Opening(p) /\ UNCHANGED fileVars

\* RunOnce.
RunOnce(d) == at[d] = "open" /\ Exchange(d) /\ UNCHANGED upgradeVars

\* A program ends, wherever it is.
End(p) ==
    /\ Break(p)
    /\ IF p \in Daemon THEN Stop(p) ELSE UNCHANGED fileVars

Next ==
    \/ \E p \in Process : OpenStore(p) \/ End(p)
    \/ \E d \in Daemon : RunOnce(d)

\* systemd and launchd start a daemon again (Restart, KeepAlive), the user the app; a
\* statement that fails now and then succeeds in the end.
Spec == Init /\ [][Next]_vars /\ \A p \in Process : WF_vars(OpenStore(p))

=============================================================================
