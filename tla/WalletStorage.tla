--------------------------- MODULE WalletStorage ---------------------------
(***************************************************************************)
(* rusty-wallet/src/storage.rs: the wallet's secrets in the keyring of the *)
(* system, the plain configuration file beside it that counts wrong        *)
(* passwords, and backup files.                                            *)
(*                                                                         *)
(* A save writes the file and then the keyring, and may end between the    *)
(* two: the keyring refuses, or the process dies.  A load writes the file  *)
(* at its end and ignores an error of that write.  What is encrypted with  *)
(* a password is read with that password only.  The keyring replaces an    *)
(* entry as a whole; a file that is being written may be cut.              *)
(***************************************************************************)
EXTENDS Naturals

CONSTANTS
    WsSecrets, WsPasswords,
    MaxAttempts,    \* 5
    MaxWsFaults,    \* bound: saves cut short and writes lost
    MaxWrong        \* bound: wrong passwords tried in a row

ASSUME WsAssumption == MaxAttempts \in Nat /\ "none" \notin WsPasswords

VARIABLES
    wsConfig,   \* [attempts, locked] of the configuration file
    wsEntry,    \* the entry of the keyring
    wsSaving,   \* a save that has written the file but not the keyring
    wsBackup,   \* the backup file
    wsResult,   \* what the last load or verification returned, until a save or backup
    wsSaved,    \* history: the last save that was completed
    wsWrong,    \* history: wrong passwords checked since the last right one or save
    wsCut,      \* history: saves cut short since then
    wsLost      \* history: configurations that could not be written since then

wsVars == <<wsConfig, wsEntry, wsSaving, wsBackup, wsResult, wsSaved, wsWrong, wsCut, wsLost>>

Sealed == [secret : WsSecrets, password : WsPasswords]
NoSeal == [secret |-> "none", password |-> "none"]
CutFile == [secret |-> "cut", password |-> "none"]

\* WalletConfig::default, which confy also gives for a file that is missing
FreshConfig == [attempts |-> 0, locked |-> FALSE]

Returned(what, of) == [what |-> what, of |-> of]

WsInit ==
    /\ wsConfig = FreshConfig
    /\ wsEntry = NoSeal /\ wsSaving = NoSeal /\ wsBackup = NoSeal /\ wsSaved = NoSeal
    /\ wsResult = Returned("nothing", NoSeal)
    /\ wsWrong = 0 /\ wsCut = 0 /\ wsLost = 0

-----------------------------------------------------------------------------
(* save_wallet_data_securely                                               *)

SaveConfig(seal) ==
    /\ wsSaving = NoSeal
    /\ wsConfig' = FreshConfig
    /\ wsSaving' = seal
    /\ UNCHANGED <<wsEntry, wsBackup, wsResult, wsSaved, wsWrong, wsCut, wsLost>>

SaveEntry ==
    /\ wsSaving # NoSeal
    /\ wsEntry' = wsSaving
    /\ wsSaved' = wsSaving
    /\ wsSaving' = NoSeal
    /\ wsResult' = Returned("nothing", NoSeal)
    /\ wsWrong' = 0 /\ wsCut' = 0 /\ wsLost' = 0
    /\ UNCHANGED <<wsConfig, wsBackup>>

\* The keyring refuses the entry, or the process dies before it is asked.
SaveCut ==
    /\ wsSaving # NoSeal /\ wsCut + wsLost < MaxWsFaults
    /\ wsSaving' = NoSeal
    /\ wsCut' = wsCut + 1
    /\ UNCHANGED <<wsConfig, wsEntry, wsBackup, wsResult, wsSaved, wsWrong, wsLost>>

-----------------------------------------------------------------------------
(* load_wallet_data_securely                                               *)

\* The new configuration is written, or the write fails and is ignored.
StoreConfig(config) ==
    \/ wsConfig' = config /\ UNCHANGED wsLost
    \/ /\ wsCut + wsLost < MaxWsFaults
       /\ wsLost' = wsLost + 1
       /\ UNCHANGED wsConfig

LoadLocks ==
    /\ wsSaving = NoSeal /\ ~wsConfig.locked
    /\ wsConfig.attempts >= MaxAttempts
    /\ StoreConfig([wsConfig EXCEPT !.locked = TRUE])
    /\ wsResult' = Returned("error", NoSeal)
    /\ UNCHANGED <<wsEntry, wsSaving, wsBackup, wsSaved, wsWrong, wsCut>>

\* A fault: a wrong password is not counted.
LoadUncounted(password) ==
    /\ wsSaving = NoSeal /\ ~wsConfig.locked /\ wsConfig.attempts < MaxAttempts
    /\ wsEntry # NoSeal /\ wsEntry.password # password
    /\ wsWrong < MaxWrong
    /\ wsResult' = Returned("error", NoSeal)
    /\ wsWrong' = wsWrong + 1
    /\ UNCHANGED <<wsConfig, wsEntry, wsSaving, wsBackup, wsSaved, wsCut, wsLost>>

LoadWrong(password) ==
    /\ wsSaving = NoSeal /\ ~wsConfig.locked /\ wsConfig.attempts < MaxAttempts
    /\ wsEntry # NoSeal /\ wsEntry.password # password
    /\ wsWrong < MaxWrong
    /\ StoreConfig([wsConfig EXCEPT !.attempts = @ + 1])
    /\ wsResult' = Returned("error", NoSeal)
    /\ wsWrong' = wsWrong + 1
    /\ UNCHANGED <<wsEntry, wsSaving, wsBackup, wsSaved, wsCut>>

\* A right password starts the count again; when the file cannot be written,
\* the wrong ones before it stay counted.
LoadRight(password) ==
    /\ wsSaving = NoSeal /\ ~wsConfig.locked /\ wsConfig.attempts < MaxAttempts
    /\ wsEntry # NoSeal /\ wsEntry.password = password
    /\ wsConfig' \in {FreshConfig, wsConfig}
    /\ wsResult' = Returned("loaded", wsEntry)
    /\ wsWrong' = 0 /\ wsCut' = 0 /\ wsLost' = 0
    /\ UNCHANGED <<wsEntry, wsSaving, wsBackup, wsSaved>>

-----------------------------------------------------------------------------
(* Backups.                                                                *)

\* fs::write truncates the file first.
create_wallet_backup(seal) ==
    /\ wsSaving = NoSeal
    /\ wsBackup' \in {seal, CutFile}
    /\ wsResult' = Returned("nothing", NoSeal)
    /\ UNCHANGED <<wsConfig, wsEntry, wsSaving, wsSaved, wsWrong, wsCut, wsLost>>

\* A file that is missing or cut cannot be parsed.
verify_wallet_backup(password) ==
    /\ wsSaving = NoSeal
    /\ wsResult' = IF wsBackup \in Sealed /\ wsBackup.password = password
                   THEN Returned("verified", [wsBackup EXCEPT !.password = password])
                   ELSE Returned("error", NoSeal)
    /\ UNCHANGED <<wsConfig, wsEntry, wsSaving, wsBackup, wsSaved, wsWrong, wsCut, wsLost>>

WsNext ==
    \/ \E seal \in Sealed : SaveConfig(seal) \/ create_wallet_backup(seal)
    \/ SaveEntry \/ SaveCut \/ LoadLocks
    \/ \E p \in WsPasswords : LoadWrong(p) \/ LoadRight(p) \/ verify_wallet_backup(p)

WsSpec == WsInit /\ [][WsNext]_wsVars

-----------------------------------------------------------------------------
(* Properties.                                                             *)

\* What a load returns is what the last completed save stored, whatever saves
\* were cut short (save_wallet_data_securely, load_wallet_data_securely).
LoadReturnsSaved == wsResult.what = "loaded" => wsResult.of = wsSaved

\* Of the passwords tried since the last right one, at most MaxAttempts wrong
\* ones were looked at; a save that was cut short, which resets the count, and
\* a count that could not be written allow so many more (failed_attempts,
\* is_locked).
WrongPasswordsBounded ==
    wsWrong <= MaxAttempts * (1 + wsCut) + wsLost

\* A backup is reported as good only when it is whole and was made with that
\* password (create_wallet_backup, verify_wallet_backup).
VerifiedIsBackup == wsResult.what = "verified" => wsResult.of = wsBackup
=============================================================================
