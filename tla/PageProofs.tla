----------------------------- MODULE PageProofs -----------------------------
(***************************************************************************)
(* The pages /backups and /restore for any devices, paths, backups, files, *)
(* rules and requests: first the dialogs of BackupArchive, then those of   *)
(* BackupForm, then the wizard of RestorePage.  The archive's argument is  *)
(* that its page waits for one answer at a time, which belongs to the      *)
(* dialog or question that is open; the form's is that the only request of *)
(* the effect that still counts is the one for the choice.  In the wizard, *)
(* what is ticked are always files of the detail on display, whichever     *)
(* backup that is of; a request that is still current asks for the backup  *)
(* picked last; and a restore is sent with all that is ticked.             *)
(***************************************************************************)
EXTENDS BackupForm, BackupArchive, RestorePage, FiniteSetTheorems, TLAPS

Archives ==
  [detail : Backup \cup {Nobody}, ticked : SUBSET BackupFile, doomed : Backup \cup {Nobody},
   cleanup : Rule, auto : Rule, preview : Rule \cup {Nobody}, confirm : BOOLEAN,
   drifted : BOOLEAN, lost : BOOLEAN]

Waiting == {q \in pending : q.kind # "settings"}

(* The page waits for one answer, and `saving` says whether it does.        *)
WaitsForOne ==
  /\ \A q, r \in Waiting : q = r
  /\ saving <=> Waiting # {}

(* What an answer is for is still open when it comes.                       *)
Place(q) ==
  /\ q.kind = "detail" => mode = "detail"
  /\ q.kind \in {"preview", "cleanup", "saveCleanup"} => mode = "cleanup"
  /\ q.kind = "saveAuto" => mode = "autoBackup"
  /\ q.kind = "delete" => archive.doomed = q.backup /\ q.backup # Nobody
AnswersHaveTheirPlace == \A q \in Waiting : Place(q)

(* A preview is of the rule in the form, unless that has drifted away.      *)
PreviewIsOfTheRule ==
  /\ archive.preview # Nobody => mode = "cleanup"
  /\ archive.preview # Nobody /\ ~archive.drifted => archive.cleanup = archive.preview
  /\ \A q \in Waiting : q.kind = "preview" /\ ~archive.drifted => q.cleanup = archive.cleanup

TicksAreShown == archive.ticked \subseteq FilesOf(archive.detail)

(* The backup on display is there, or the answer that it is not is on its   *)
(* way or lost.                                                             *)
DetailIsThere ==
  archive.detail # Nobody =>
    \/ archive.detail \in kept \/ archive.lost
    \/ \E q \in Waiting : q.kind = "delete" /\ q.ok /\ q.backup = archive.detail

ArchiveInv ==
  /\ ArchiveTypeOK
  /\ WaitsForOne /\ AnswersHaveTheirPlace
  /\ PreviewIsOfTheRule /\ TicksAreShown /\ DetailIsThere

-----------------------------------------------------------------------------
LEMMA AskTypes ==
  ASSUME ArchiveTypeOK, NEW b \in Backup \cup {Nobody},
         NEW kind \in {"settings", "detail", "delete", "preview", "cleanup", "saveCleanup", "saveAuto"}
  PROVE  ArchiveAsk(kind, b) \in ArchiveRequest
BY DEF ArchiveTypeOK, ArchiveAsk, ArchiveRequest

LEMMA ArchiveInitInv == ArchiveInit => ArchiveInv
<1> SUFFICES ASSUME ArchiveInit PROVE ArchiveInv
  OBVIOUS
<1>0. PICK r \in Rule : archive = NewArchive(r)
  BY DEF ArchiveInit
<1>1. /\ archive \in Archives /\ archive.preview = Nobody /\ archive.ticked = {} /\ archive.detail = Nobody
      /\ mode = "none" /\ ~saving
  BY <1>0 DEF ArchiveInit, NewArchive, Archives, WorkspaceInit
<1>2. pending \subseteq ArchiveRequest /\ Waiting = {}
  BY DEF ArchiveInit, SettingsAsked, ArchiveRequest, Waiting
<1> QED
  BY <1>1, <1>2
  DEF ArchiveInv, ArchiveTypeOK, Archives, ArchiveInit, WorkspaceInit, WorkspaceTypeOK, ModalMode, WaitsForOne,
      AnswersHaveTheirPlace, PreviewIsOfTheRule, TicksAreShown, DetailIsThere

(* Steps of the user that send nothing.                                     *)
LEMMA UserKeepsInv ==
  ASSUME ArchiveInv, archive' \in Archives, mode' \in ModalMode,
         saving' = saving, pending' = pending, kept' = kept, stored' = stored,
         mode' = mode \/ Waiting = {}, archive'.doomed = archive.doomed \/ Waiting = {},
         archive'.preview # Nobody => mode' = "cleanup",
         archive'.preview # Nobody /\ ~archive'.drifted => archive'.cleanup = archive'.preview,
         \A q \in Waiting : q.kind = "preview" /\ ~archive'.drifted => q.cleanup = archive'.cleanup,
         archive'.detail = archive.detail, archive'.lost = archive.lost,
         archive'.ticked \subseteq FilesOf(archive.detail)
  PROVE  ArchiveInv'
<1>1. Waiting' = Waiting
  BY DEF Waiting
<1>2. ArchiveTypeOK'
  BY DEF ArchiveInv, ArchiveTypeOK, WorkspaceTypeOK, Archives
<1>3. WaitsForOne' /\ AnswersHaveTheirPlace'
  BY <1>1 DEF ArchiveInv, WaitsForOne, AnswersHaveTheirPlace, Place
<1>4. PreviewIsOfTheRule' /\ TicksAreShown' /\ DetailIsThere'
  BY <1>1 DEF ArchiveInv, PreviewIsOfTheRule, TicksAreShown, DetailIsThere
<1> QED BY <1>2, <1>3, <1>4 DEF ArchiveInv

(* Steps that send a request, when no other answer is awaited.              *)
LEMMA SendKeepsInv ==
  ASSUME ArchiveInv, Waiting = {}, NEW q \in ArchiveRequest, q.kind # "settings", SendAndWait(q),
         archive' \in Archives, mode' \in ModalMode, kept' \subseteq Backup,
         stored' \in [cleanup : Rule, auto : Rule],
         Place(q)', q.kind = "preview" => q.cleanup = archive'.cleanup,
         archive'.preview # Nobody => mode' = "cleanup",
         archive'.preview # Nobody /\ ~archive'.drifted => archive'.cleanup = archive'.preview,
         TicksAreShown', DetailIsThere'
  PROVE  ArchiveInv'
<1>1. Waiting' = {q} /\ saving' = TRUE /\ pending' = pending \cup {q}
  BY DEF Waiting, SendAndWait
<1>2. ArchiveTypeOK'
  BY <1>1 DEF ArchiveInv, ArchiveTypeOK, WorkspaceTypeOK, Archives
<1>3. WaitsForOne' /\ AnswersHaveTheirPlace'
  BY <1>1 DEF WaitsForOne, AnswersHaveTheirPlace
<1>4. PreviewIsOfTheRule'
  BY <1>1 DEF PreviewIsOfTheRule
<1> QED BY <1>2, <1>3, <1>4 DEF ArchiveInv

(* The answer that is awaited.                                              *)
LEMMA AnswerKeepsInv ==
  ASSUME ArchiveInv, NEW q \in Waiting, pending' = pending \ {q}, saving' = FALSE,
         archive' \in Archives, mode' \in ModalMode, kept' = kept, stored' = stored,
         archive'.preview # Nobody => mode' = "cleanup",
         archive'.preview # Nobody /\ ~archive'.drifted => archive'.cleanup = archive'.preview,
         TicksAreShown', DetailIsThere'
  PROVE  ArchiveInv'
<1>1. Waiting' = {}
  BY DEF ArchiveInv, WaitsForOne, Waiting
<1>2. ArchiveTypeOK'
  BY DEF ArchiveInv, ArchiveTypeOK, WorkspaceTypeOK, Archives
<1>3. WaitsForOne' /\ AnswersHaveTheirPlace' /\ PreviewIsOfTheRule'
  BY <1>1 DEF WaitsForOne, AnswersHaveTheirPlace, PreviewIsOfTheRule
<1> QED BY <1>2, <1>3 DEF ArchiveInv

-----------------------------------------------------------------------------
(* At the tables, and whenever `saving` is not set, nothing is awaited.     *)
LEMMA NothingAwaited ==
  ASSUME ArchiveInv, AtTables \/ ~saving
  PROVE  Waiting = {}
<1>1. CASE ~saving
  BY <1>1 DEF ArchiveInv, WaitsForOne
<1>2. CASE AtTables
  <2> SUFFICES ASSUME NEW q \in Waiting PROVE FALSE
    OBVIOUS
  <2>1. q.kind \in {"detail", "delete", "preview", "cleanup", "saveCleanup", "saveAuto"}
    BY DEF Waiting, ArchiveInv, ArchiveTypeOK, ArchiveRequest
  <2>2. Place(q)
    BY DEF ArchiveInv, AnswersHaveTheirPlace
  <2> QED BY <1>2, <2>1, <2>2 DEF AtTables, Place
<1> QED BY <1>1, <1>2

LEMMA TableSteps ==
  ASSUME ArchiveInv, OpenCleanup \/ OpenAutoBackup \/ CloseArchive
  PROVE  ArchiveInv'
<1>0. archive \in Archives /\ TicksAreShown
  BY DEF ArchiveInv, ArchiveTypeOK, Archives
<1>1. Waiting = {}
  BY NothingAwaited DEF OpenCleanup, OpenAutoBackup, OpenModal, CloseArchive
<1>2. /\ archive' = [archive EXCEPT !.preview = Nobody, !.confirm = FALSE, !.drifted = FALSE]
      /\ UNCHANGED <<saving, pending, kept, stored>>
      /\ mode' \in ModalMode
  BY DEF OpenCleanup, OpenAutoBackup, OpenModal, CloseArchive, ModalMode
<1> QED BY <1>0, <1>1, <1>2, UserKeepsInv DEF Archives, TicksAreShown

LEMMA DetailSteps ==
  ASSUME ArchiveInv,
         \/ \E file \in BackupFile : ToggleDownloadFile(file)
         \/ ToggleAllDownloadFiles
  PROVE  ArchiveInv'
<1>0. /\ archive \in Archives /\ mode \in ModalMode /\ archive.ticked \subseteq FilesOf(archive.detail)
      /\ PreviewIsOfTheRule
  BY DEF ArchiveInv, ArchiveTypeOK, WorkspaceTypeOK, Archives, TicksAreShown
<1>1. FilesOf(archive.detail) \subseteq BackupFile
  BY <1>0, DevicesOK DEF Archives, FilesOf, BackupFile
<1>2. PICK ticks \in SUBSET FilesOf(archive.detail) : archive' = [archive EXCEPT !.ticked = ticks]
  <2>1. ASSUME NEW file \in BackupFile, ToggleDownloadFile(file)
        PROVE  \E ticks \in SUBSET FilesOf(archive.detail) : archive' = [archive EXCEPT !.ticked = ticks]
    <3>1. file \in FilesOf(archive.detail)
      BY <2>1 DEF ToggleDownloadFile
    <3>2. CASE file \in archive.ticked
      BY <1>0, <2>1, <3>2 DEF ToggleDownloadFile
    <3>3. CASE file \notin archive.ticked
      BY <1>0, <2>1, <3>1, <3>3 DEF ToggleDownloadFile
    <3> QED BY <3>2, <3>3
  <2>2. CASE ToggleAllDownloadFiles
    BY <2>2 DEF ToggleAllDownloadFiles
  <2> QED BY <2>1, <2>2
<1>3. UNCHANGED <<mode, saving, pending, kept, stored>>
  BY DEF ToggleDownloadFile, ToggleAllDownloadFiles
<1> QED BY <1>0, <1>1, <1>2, <1>3, UserKeepsInv DEF Archives, PreviewIsOfTheRule

(* Questions that open or go: RequestDelete, CancelDelete, AskCleanup.      *)
LEMMA QuestionSteps ==
  ASSUME ArchiveInv,
         \/ \E b \in Backup : RequestDeleteBackup(b)
         \/ CancelDeleteBackup \/ AskCleanup \/ CancelCleanup \/ BackToRule
  PROVE  ArchiveInv'
<1>0. /\ archive \in Archives /\ mode \in ModalMode /\ archive.ticked \subseteq FilesOf(archive.detail)
      /\ PreviewIsOfTheRule
  BY DEF ArchiveInv, ArchiveTypeOK, WorkspaceTypeOK, Archives, TicksAreShown
<1>1. Waiting = {}
  BY NothingAwaited DEF RequestDeleteBackup, CancelDeleteBackup, AskCleanup, CancelCleanup, BackToRule
<1>2. UNCHANGED <<mode, saving, pending, kept, stored>>
  BY DEF RequestDeleteBackup, CancelDeleteBackup, AskCleanup, CancelCleanup, BackToRule
<1>3. CASE (\E b \in Backup : RequestDeleteBackup(b)) \/ CancelDeleteBackup
  <2>1. PICK b \in Backup \cup {Nobody} : archive' = [archive EXCEPT !.doomed = b]
    BY <1>3 DEF RequestDeleteBackup, CancelDeleteBackup
  <2> QED BY <1>0, <1>1, <1>2, <2>1, UserKeepsInv DEF Archives, PreviewIsOfTheRule
<1>4. CASE AskCleanup \/ CancelCleanup
  <2>1. PICK on \in BOOLEAN : archive' = [archive EXCEPT !.confirm = on]
    BY <1>4 DEF AskCleanup, CancelCleanup
  <2> QED BY <1>0, <1>1, <1>2, <2>1, UserKeepsInv DEF Archives, PreviewIsOfTheRule
<1>5. CASE BackToRule
  <2>1. archive' = [archive EXCEPT !.preview = Nobody]
    BY <1>5 DEF BackToRule
  <2> QED BY <1>0, <1>1, <1>2, <2>1, UserKeepsInv DEF Archives, PreviewIsOfTheRule
<1> QED BY <1>3, <1>4, <1>5

(* An edit of the rule drops its preview, or says that it drifts away.      *)
LEMMA EditSteps ==
  ASSUME ArchiveInv, NEW r \in Rule, EditCleanup(r) \/ EditAutoBackup(r)
  PROVE  ArchiveInv'
<1>0. /\ archive \in Archives /\ mode \in ModalMode /\ archive.ticked \subseteq FilesOf(archive.detail)
      /\ PreviewIsOfTheRule
  BY DEF ArchiveInv, ArchiveTypeOK, WorkspaceTypeOK, Archives, TicksAreShown
<1>1. UNCHANGED <<mode, saving, pending, kept, stored>>
  BY DEF EditCleanup, EditAutoBackup
<1>2. CASE EditCleanup(r)
  <2>1. archive' = [archive EXCEPT !.cleanup = r, !.preview = Nobody, !.drifted = @ \/ PreviewAsked]
    BY <1>2 DEF EditCleanup
  <2>2. PreviewAsked \in BOOLEAN
    BY DEF PreviewAsked
  <2>3. \A q \in Waiting : q.kind = "preview" => PreviewAsked
    BY DEF Waiting, PreviewAsked
  <2> HIDE DEF PreviewAsked
  <2> QED BY <1>0, <1>1, <2>1, <2>2, <2>3, UserKeepsInv DEF Archives
<1>3. CASE EditAutoBackup(r)
  <2>1. archive' = [archive EXCEPT !.auto = r]
    BY <1>3 DEF EditAutoBackup
  <2> QED BY <1>0, <1>1, <2>1, UserKeepsInv DEF Archives, PreviewIsOfTheRule
<1> QED BY <1>2, <1>3

-----------------------------------------------------------------------------
LEMMA SendSteps ==
  ASSUME ArchiveInv,
         \/ \E b \in Backup : OpenBackupDetail(b)
         \/ ConfirmDeleteBackup \/ PreviewCleanup \/ SubmitCleanup
         \/ SaveCleanupSettings \/ SaveAutoBackupSettings
  PROVE  ArchiveInv'
<1>0. /\ archive \in Archives /\ mode \in ModalMode /\ archive.ticked \subseteq FilesOf(archive.detail)
      /\ PreviewIsOfTheRule /\ DetailIsThere
      /\ ArchiveTypeOK /\ kept \subseteq Backup /\ stored \in [cleanup : Rule, auto : Rule]
  BY DEF ArchiveInv, ArchiveTypeOK, WorkspaceTypeOK, Archives, TicksAreShown
<1>1. Waiting = {}
  BY NothingAwaited
  DEF OpenBackupDetail, ConfirmDeleteBackup, PreviewCleanup, SubmitCleanup, SaveCleanupSettings, SaveAutoBackupSettings
<1>2. archive.detail # Nobody => archive.detail \in kept \/ archive.lost
  BY <1>0, <1>1 DEF DetailIsThere
<1>3. ASSUME NEW b \in Backup, OpenBackupDetail(b) PROVE ArchiveInv'
  <2>0. PICK q \in ArchiveRequest : q = ArchiveAsk("detail", b)
    BY <1>0, AskTypes
  <2>1. q.kind = "detail"
    BY <2>0 DEF ArchiveAsk
  <2>2. /\ mode' = "detail" /\ SendAndWait(q) /\ UNCHANGED <<kept, stored>>
        /\ archive' = [archive EXCEPT !.detail = Nobody, !.ticked = {}, !.lost = FALSE]
    BY <1>3, <2>0 DEF OpenBackupDetail
  <2>3. /\ archive' \in Archives /\ archive'.detail = Nobody /\ archive'.ticked = {}
        /\ archive'.preview = archive.preview
    BY <1>0, <2>2 DEF Archives
  <2>4. archive.preview = Nobody
    BY <1>0, <1>3 DEF OpenBackupDetail, AtTables, PreviewIsOfTheRule
  <2>5. TicksAreShown' /\ DetailIsThere'
    BY <2>3 DEF TicksAreShown, DetailIsThere
  <2>6. Place(q)' /\ mode' \in ModalMode
    BY <2>1, <2>2 DEF Place, ModalMode
  <2> QED BY <1>0, <1>1, <2>1, <2>2, <2>3, <2>4, <2>5, <2>6, SendKeepsInv
<1>4. CASE ConfirmDeleteBackup
  <2>1. ArchiveAsk("delete", archive.doomed) \in ArchiveRequest
    BY <1>0, AskTypes DEF Archives
  <2>2. PICK q \in ArchiveRequest :
          /\ SendAndWait(q) /\ q.kind = "delete" /\ q.backup = archive.doomed
          /\ kept' = IF q.ok THEN kept \ {archive.doomed} ELSE kept
    <3>1. CASE SendAndWait(ArchiveAsk("delete", archive.doomed)) /\ kept' = kept \ {archive.doomed}
      BY <2>1, <3>1 DEF ArchiveAsk
    <3>2. CASE SendAndWait([ArchiveAsk("delete", archive.doomed) EXCEPT !.ok = FALSE]) /\ UNCHANGED kept
      <4> DEFINE r == [ArchiveAsk("delete", archive.doomed) EXCEPT !.ok = FALSE]
      <4>1. r \in ArchiveRequest /\ r.kind = "delete" /\ r.backup = archive.doomed /\ r.ok = FALSE
        BY <2>1 DEF ArchiveRequest, ArchiveAsk
      <4>2. SendAndWait(r) /\ kept' = kept
        BY <3>2
      <4> HIDE DEF r
      <4> QED BY <4>1, <4>2
    <3> QED BY <1>4, <3>1, <3>2 DEF ConfirmDeleteBackup
  <2>3. archive.doomed # Nobody /\ UNCHANGED <<mode, archive, stored>>
    BY <1>4 DEF ConfirmDeleteBackup
  <2>4. Place(q)'
    BY <2>2, <2>3 DEF Place
  <2>5. q \in Waiting'
    BY <2>2 DEF Waiting, SendAndWait
  <2>6. TicksAreShown' /\ DetailIsThere'
    BY <1>0, <1>2, <2>2, <2>3, <2>5 DEF TicksAreShown, DetailIsThere
  <2>7. kept' \subseteq Backup
    BY <1>0, <2>2
  <2> QED BY <1>0, <1>1, <2>2, <2>3, <2>4, <2>6, <2>7, SendKeepsInv DEF PreviewIsOfTheRule
<1>5. ASSUME NEW kind \in {"preview", "cleanup", "saveCleanup", "saveAuto"},
             SendAndWait(ArchiveAsk(kind, Nobody)), UNCHANGED <<mode, kept>>,
             stored' \in [cleanup : Rule, auto : Rule],
             archive' = archive \/ (archive.preview = Nobody /\ archive' = [archive EXCEPT !.drifted = FALSE]),
             IF kind = "saveAuto" THEN mode = "autoBackup" ELSE mode = "cleanup"
      PROVE  ArchiveInv'
  <2>0. PICK q \in ArchiveRequest : q = ArchiveAsk(kind, Nobody)
    BY <1>0, AskTypes
  <2>1. q.kind = kind /\ q.cleanup = archive.cleanup
    BY <2>0 DEF ArchiveAsk
  <2>2. /\ archive' \in Archives /\ archive'.cleanup = archive.cleanup /\ archive'.preview = archive.preview
        /\ archive'.detail = archive.detail /\ archive'.ticked = archive.ticked /\ archive'.lost = archive.lost
        /\ archive'.preview # Nobody => archive'.drifted = archive.drifted
    BY <1>0, <1>5 DEF Archives
  <2>3. Place(q)'
    BY <1>5, <2>1 DEF Place
  <2>4. TicksAreShown' /\ DetailIsThere'
    BY <1>0, <1>2, <1>5, <2>2 DEF TicksAreShown, DetailIsThere
  <2>5. SendAndWait(q) /\ q.kind # "settings"
    BY <1>5, <2>0, <2>1
  <2>6. /\ archive'.preview # Nobody => mode' = "cleanup"
        /\ archive'.preview # Nobody /\ ~archive'.drifted => archive'.cleanup = archive'.preview
    BY <1>0, <1>5, <2>2 DEF PreviewIsOfTheRule
  <2>7. kept' \subseteq Backup /\ mode' \in ModalMode
    BY <1>0, <1>5
  <2> QED BY <1>1, <1>5, <2>1, <2>2, <2>3, <2>4, <2>5, <2>6, <2>7, SendKeepsInv
<1>6. CASE PreviewCleanup
  BY <1>0, <1>5, <1>6 DEF PreviewCleanup, Uncovered
<1>7. CASE SubmitCleanup
  BY <1>0, <1>5, <1>7 DEF SubmitCleanup, Confirming, PreviewIsOfTheRule
<1>8. CASE SaveCleanupSettings \/ SaveAutoBackupSettings
  <2>1. stored' \in [cleanup : Rule, auto : Rule]
    BY <1>0, <1>8 DEF SaveCleanupSettings, SaveAutoBackupSettings, Archives
  <2> QED BY <1>5, <1>8, <2>1 DEF SaveCleanupSettings, SaveAutoBackupSettings, Uncovered
<1> QED BY <1>3, <1>4, <1>6, <1>7, <1>8
-----------------------------------------------------------------------------
(* The settings that arrive late say that a preview drifts away.            *)
LEMMA SettingsKeepInv ==
  ASSUME ArchiveInv, NEW q \in pending, SettingsReply(q)
  PROVE  ArchiveInv'
<1>0. /\ archive \in Archives /\ mode \in ModalMode /\ q.cleanup \in Rule /\ q.auto \in Rule
      /\ archive.preview # Nobody => mode = "cleanup"
  BY DEF ArchiveInv, ArchiveTypeOK, WorkspaceTypeOK, Archives, ArchiveRequest, PreviewIsOfTheRule
<1>1. pending' = pending \ {q} /\ q.kind = "settings" /\ UNCHANGED <<mode, saving, kept, stored>>
  BY DEF SettingsReply
<1>2. Waiting' = Waiting
  BY <1>1 DEF Waiting
<1>3. PICK next \in Archives :
        /\ archive' = next
        /\ next.detail = archive.detail /\ next.ticked = archive.ticked /\ next.lost = archive.lost
        /\ next.doomed = archive.doomed /\ next.preview = archive.preview
        /\ \/ next = archive
           \/ next.drifted
           \/ next.preview = Nobody /\ \A r \in Waiting : r.kind # "preview"
  <2>1. CASE UNCHANGED archive
    BY <1>0, <2>1
  <2>2. CASE archive' = [archive EXCEPT !.cleanup = q.cleanup, !.auto = q.auto,
                           !.drifted = @ \/ PreviewAsked \/ archive.preview # Nobody]
    <3>1. PreviewAsked \in BOOLEAN /\ (~PreviewAsked => \A r \in Waiting : r.kind # "preview")
      BY DEF PreviewAsked, Waiting
    <3> HIDE DEF PreviewAsked
    <3>2. archive' \in Archives
      BY <1>0, <2>2, <3>1 DEF Archives
    <3>3. archive'.drifted \/ (archive'.preview = Nobody /\ ~PreviewAsked)
      BY <1>0, <2>2, <3>1 DEF Archives
    <3> QED BY <1>0, <2>2, <3>1, <3>2, <3>3 DEF Archives
  <2> QED BY <2>1, <2>2 DEF SettingsReply
<1>4. ArchiveTypeOK'
  BY <1>1, <1>3 DEF ArchiveInv, ArchiveTypeOK, WorkspaceTypeOK, Archives
<1>5. WaitsForOne' /\ AnswersHaveTheirPlace'
  BY <1>1, <1>2, <1>3 DEF ArchiveInv, WaitsForOne, AnswersHaveTheirPlace, Place
<1>6. PreviewIsOfTheRule'
  BY <1>0, <1>1, <1>2, <1>3 DEF ArchiveInv, PreviewIsOfTheRule
<1>7. TicksAreShown' /\ DetailIsThere'
  BY <1>1, <1>2, <1>3 DEF ArchiveInv, TicksAreShown, DetailIsThere
<1> QED BY <1>4, <1>5, <1>6, <1>7 DEF ArchiveInv

(* Answers: they close a dialog or fill it.                                 *)
LEMMA ReplyKeepsInv ==
  ASSUME ArchiveInv, NEW q \in pending, ArchiveReply(q)
  PROVE  ArchiveInv'
<1>0. /\ archive \in Archives /\ mode \in ModalMode /\ archive.ticked \subseteq FilesOf(archive.detail)
      /\ PreviewIsOfTheRule /\ DetailIsThere /\ kept \subseteq Backup /\ q \in ArchiveRequest
  BY DEF ArchiveInv, ArchiveTypeOK, WorkspaceTypeOK, Archives, TicksAreShown
<1>1. /\ q \in Waiting /\ q.kind # "delete" /\ pending' = pending \ {q} /\ saving' = FALSE
      /\ UNCHANGED <<mode, kept, stored>> /\ archive' = AfterArchiveReply(q)
      /\ q.kind = "detail" => q.backup \in kept
  BY DEF ArchiveReply, Waiting
<1>2. /\ q.kind \in {"detail", "preview", "cleanup", "saveCleanup", "saveAuto"}
      /\ q.cleanup \in Rule /\ q.auto \in Rule
  BY <1>0, <1>1 DEF ArchiveRequest, Waiting
<1>3. Place(q) /\ \A r \in Waiting : r = q
  BY <1>1 DEF ArchiveInv, AnswersHaveTheirPlace, WaitsForOne
<1>4. archive.detail # Nobody => archive.detail \in kept \/ archive.lost
  BY <1>0, <1>1, <1>3 DEF DetailIsThere
<1>5. CASE q.kind = "detail"
  <2>1. archive' = [archive EXCEPT !.detail = q.backup, !.ticked = FilesOf(q.backup)]
    BY <1>1, <1>5 DEF AfterArchiveReply
  <2>2. FilesOf(q.backup) \subseteq BackupFile /\ q.backup \in Backup /\ q.backup \in kept
    BY <1>0, <1>1, <1>5 DEF BackupFile
  <2>3. archive.preview = Nobody
    BY <1>0, <1>3, <1>5 DEF Place, PreviewIsOfTheRule
  <2>4. /\ archive' \in Archives /\ archive'.preview = Nobody /\ archive'.detail = q.backup
        /\ archive'.ticked = FilesOf(q.backup)
    BY <1>0, <2>1, <2>2, <2>3 DEF Archives
  <2>5. TicksAreShown' /\ DetailIsThere'
    BY <1>1, <2>2, <2>4 DEF TicksAreShown, DetailIsThere
  <2> QED BY <1>0, <1>1, <2>4, <2>5, AnswerKeepsInv
<1>6. CASE q.kind # "detail"
  <2>1. /\ archive' \in Archives /\ archive'.detail = archive.detail
        /\ archive'.ticked = archive.ticked /\ archive'.lost = archive.lost
        /\ \/ q.kind = "preview" /\ archive'.preview = q.cleanup /\ archive'.drifted = archive.drifted
              /\ archive'.cleanup = archive.cleanup
           \/ archive'.preview = Nobody
           \/ q.kind = "saveAuto" /\ archive'.preview = archive.preview
    <3>1. CASE q.kind = "preview"
      BY <1>0, <1>1, <1>2, <3>1 DEF AfterArchiveReply, Archives
    <3>2. CASE q.kind = "cleanup"
      BY <1>0, <1>1, <1>2, <3>2 DEF AfterArchiveReply, Archives
    <3>3. CASE q.kind = "saveCleanup"
      BY <1>0, <1>1, <1>2, <3>3 DEF AfterArchiveReply, Archives
    <3>4. CASE q.kind = "saveAuto"
      BY <1>0, <1>1, <1>2, <3>4 DEF AfterArchiveReply, Archives
    <3> QED BY <1>2, <1>6, <3>1, <3>2, <3>3, <3>4
  <2>2. /\ archive'.preview # Nobody => mode' = "cleanup"
        /\ archive'.preview # Nobody /\ ~archive'.drifted => archive'.cleanup = archive'.preview
    BY <1>0, <1>1, <1>3, <2>1 DEF PreviewIsOfTheRule, Place
  <2>3. TicksAreShown' /\ DetailIsThere'
    BY <1>0, <1>1, <1>4, <2>1 DEF TicksAreShown, DetailIsThere
  <2> QED BY <1>0, <1>1, <2>1, <2>2, <2>3, AnswerKeepsInv
<1> QED BY <1>5, <1>6

LEMMA DeletedKeepsInv ==
  ASSUME ArchiveInv, NEW q \in pending, DeleteReply(q)
  PROVE  ArchiveInv'
<1>0. /\ archive \in Archives /\ mode \in ModalMode /\ archive.ticked \subseteq FilesOf(archive.detail)
      /\ PreviewIsOfTheRule /\ DetailIsThere
  BY DEF ArchiveInv, ArchiveTypeOK, WorkspaceTypeOK, Archives, TicksAreShown
<1>1. /\ q \in Waiting /\ pending' = pending \ {q} /\ saving' = FALSE /\ UNCHANGED <<kept, stored>>
  BY DEF DeleteReply, Waiting
<1>2. \A r \in Waiting : r = q
  BY <1>1 DEF ArchiveInv, WaitsForOne
<1>3. CASE archive.detail = q.backup
  <2>1. /\ mode' = "none"
        /\ archive' = [archive EXCEPT !.doomed = Nobody, !.detail = Nobody, !.ticked = {},
                         !.preview = Nobody, !.confirm = FALSE, !.drifted = FALSE]
    BY <1>3 DEF DeleteReply
  <2>2. /\ archive' \in Archives /\ archive'.preview = Nobody /\ archive'.detail = Nobody
        /\ archive'.ticked = {} /\ mode' \in ModalMode
    BY <1>0, <2>1 DEF Archives, ModalMode
  <2>3. TicksAreShown' /\ DetailIsThere'
    BY <2>2 DEF TicksAreShown, DetailIsThere
  <2> QED BY <1>1, <2>2, <2>3, AnswerKeepsInv
<1>4. CASE archive.detail # q.backup
  <2>1. archive' = [archive EXCEPT !.doomed = Nobody] /\ mode' = mode
    BY <1>4 DEF DeleteReply
  <2>2. /\ archive' \in Archives /\ archive'.preview = archive.preview /\ archive'.detail = archive.detail
        /\ archive'.ticked = archive.ticked /\ archive'.lost = archive.lost
        /\ archive'.drifted = archive.drifted /\ archive'.cleanup = archive.cleanup
    BY <1>0, <2>1 DEF Archives
  <2>3. TicksAreShown' /\ DetailIsThere'
    BY <1>0, <1>1, <1>2, <1>4, <2>2 DEF TicksAreShown, DetailIsThere
  <2>4. /\ archive'.preview # Nobody => mode' = "cleanup"
        /\ archive'.preview # Nobody /\ ~archive'.drifted => archive'.cleanup = archive'.preview
    BY <1>0, <2>1, <2>2 DEF PreviewIsOfTheRule
  <2> QED BY <1>0, <1>1, <2>1, <2>2, <2>3, <2>4, AnswerKeepsInv
<1> QED BY <1>3, <1>4

LEMMA FailureKeepsInv ==
  ASSUME ArchiveInv, NEW q \in pending, ArchiveReplyFails(q)
  PROVE  ArchiveInv'
<1>0. /\ archive \in Archives /\ mode \in ModalMode /\ archive.ticked \subseteq FilesOf(archive.detail)
      /\ PreviewIsOfTheRule /\ DetailIsThere /\ q \in ArchiveRequest
  BY DEF ArchiveInv, ArchiveTypeOK, WorkspaceTypeOK, Archives, TicksAreShown
<1>1. /\ q \in Waiting /\ pending' = pending \ {q} /\ saving' = FALSE /\ UNCHANGED <<mode, kept, stored>>
      /\ archive' = [archive EXCEPT !.lost = @ \/ (q.kind = "delete" /\ q.ok)]
  BY DEF ArchiveReplyFails, Waiting
<1>2. \A r \in Waiting : r = q
  BY <1>1 DEF ArchiveInv, WaitsForOne
<1>3. PICK on \in BOOLEAN :
        /\ archive' = [archive EXCEPT !.lost = on]
        /\ archive.lost \/ (q.kind = "delete" /\ q.ok) => on
  <2>1. (archive.lost \/ (q.kind = "delete" /\ q.ok)) \in BOOLEAN
    OBVIOUS
  <2> QED BY <1>1, <2>1
<1>4. /\ archive' \in Archives /\ archive'.preview = archive.preview /\ archive'.detail = archive.detail
      /\ archive'.ticked = archive.ticked /\ archive'.lost = on
      /\ archive'.drifted = archive.drifted /\ archive'.cleanup = archive.cleanup
  BY <1>0, <1>3 DEF Archives
<1>5. TicksAreShown'
  BY <1>0, <1>4 DEF TicksAreShown
<1>6. DetailIsThere'
  BY <1>0, <1>1, <1>2, <1>3, <1>4 DEF DetailIsThere
<1>7. /\ archive'.preview # Nobody => mode' = "cleanup"
      /\ archive'.preview # Nobody /\ ~archive'.drifted => archive'.cleanup = archive'.preview
  BY <1>0, <1>1, <1>4 DEF PreviewIsOfTheRule
<1> QED BY <1>0, <1>1, <1>4, <1>5, <1>6, <1>7, AnswerKeepsInv

LEMMA ArchiveNextInv == ArchiveInv /\ [ArchiveNext]_archiveVars => ArchiveInv'
<1> SUFFICES ASSUME ArchiveInv, [ArchiveNext]_archiveVars PROVE ArchiveInv'
  OBVIOUS
<1>1. CASE OpenCleanup \/ OpenAutoBackup \/ CloseArchive
  BY <1>1, TableSteps
<1>2. CASE (\E file \in BackupFile : ToggleDownloadFile(file)) \/ ToggleAllDownloadFiles
  BY <1>2, DetailSteps
<1>3. CASE \/ \E b \in Backup : RequestDeleteBackup(b)
           \/ CancelDeleteBackup \/ AskCleanup \/ CancelCleanup \/ BackToRule
  BY <1>3, QuestionSteps
<1>4. CASE \E r \in Rule : EditCleanup(r) \/ EditAutoBackup(r)
  BY <1>4, EditSteps
<1>5. CASE \/ \E b \in Backup : OpenBackupDetail(b)
           \/ ConfirmDeleteBackup \/ PreviewCleanup \/ SubmitCleanup
           \/ SaveCleanupSettings \/ SaveAutoBackupSettings
  BY <1>5, SendSteps
<1>6. CASE \E q \in pending : SettingsReply(q) \/ ArchiveReply(q) \/ DeleteReply(q) \/ ArchiveReplyFails(q)
  BY <1>6, SettingsKeepInv, ReplyKeepsInv, DeletedKeepsInv, FailureKeepsInv
<1>7. CASE UNCHANGED archiveVars
  <2>1. UNCHANGED <<mode, saving, archive, pending, kept, stored>>
    BY <1>7 DEF archiveVars
  <2>2. archive \in Archives /\ mode \in ModalMode /\ TicksAreShown /\ PreviewIsOfTheRule
    BY DEF ArchiveInv, ArchiveTypeOK, WorkspaceTypeOK, Archives
  <2> QED BY <2>1, <2>2, UserKeepsInv DEF TicksAreShown, PreviewIsOfTheRule
<1> QED BY <1>1, <1>2, <1>3, <1>4, <1>5, <1>6, <1>7 DEF ArchiveNext

LEMMA ArchiveInductive == ArchiveSpec => []ArchiveInv
<1> QED BY ArchiveInitInv, ArchiveNextInv, PTL DEF ArchiveSpec

-----------------------------------------------------------------------------
LEMMA FilesAreFinite ==
  ASSUME NEW b, b # Nobody
  PROVE  IsFiniteSet(FilesOf(b))
<1>1. FilesOf(b) = {<<b, 1>>} \cup {<<b, 2>>}
  BY DEF FilesOf
<1>2. IsFiniteSet({<<b, 1>>}) /\ IsFiniteSet({<<b, 2>>})
  BY FS_Singleton
<1> QED BY <1>1, <1>2, FS_Union

LEMMA ArchiveInvDownloads == ArchiveInv => DownloadIsWhatIsTicked
<1> SUFFICES ASSUME ArchiveInv, mode = "detail", ~saving, archive.detail # Nobody
             PROVE  Downloaded = archive.ticked /\ (archive.detail \in kept \/ archive.lost)
  BY DEF DownloadIsWhatIsTicked
<1>1. archive.ticked \subseteq FilesOf(archive.detail)
  BY DEF ArchiveInv, TicksAreShown
<1>2. archive.detail \in kept \/ archive.lost
  BY NothingAwaited DEF ArchiveInv, DetailIsThere
<1>3. Cardinality(archive.ticked) = Cardinality(FilesOf(archive.detail))
        => archive.ticked = FilesOf(archive.detail)
  BY <1>1, FilesAreFinite, FS_Subset
<1>4. Downloaded = archive.ticked
  BY <1>1, <1>3 DEF Downloaded
<1> QED BY <1>2, <1>4

LEMMA ArchiveInvCleans == ArchiveInv => CleanupIsAsPreviewed
BY DEF ArchiveInv, PreviewIsOfTheRule, CleanupIsAsPreviewed, Confirming

(* A download delivers what is ticked, of a backup that is there unless the *)
(* answer to its deletion was lost, whatever order dialogs, deletions and   *)
(* answers come in (openBackupDetail, confirmDeleteBackup and the ticks).   *)
THEOREM DownloadsAreAsTicked == ArchiveSpec => []DownloadIsWhatIsTicked
<1> QED BY ArchiveInvDownloads, ArchiveInductive, PTL

(* The cleanup that a confirmation starts is of the rule that was previewed *)
(* and shown (previewCleanup, submitCleanup), unless the form drifted: its  *)
(* rule was edited while the preview was on the way, or the stored settings *)
(* came in behind it.                                                       *)
THEOREM CleanupsAreAsPreviewed == ArchiveSpec => []CleanupIsAsPreviewed
<1> QED BY ArchiveInvCleans, ArchiveInductive, PTL

-----------------------------------------------------------------------------
(* The fields that the argument about the dialogs of BackupForm reads.      *)
FormFields == {"device", "category", "live", "liveOf", "added", "loading", "selected", "listing",
               "opened", "editing", "scope", "doomed", "mixed"}
AskedFields == {"kind", "device", "category", "path", "seen", "spare", "ok", "mine"}
Kinds == {"targets", "list", "open", "save", "rename", "deleteOwn", "deleteCommon"}

FormShape == DOMAIN form = FormFields /\ form = [f \in FormFields |-> form[f]] /\ form.loading \in BOOLEAN
Shaped(q) ==
  /\ DOMAIN q = AskedFields /\ q = [f \in AskedFields |-> q[f]]
  /\ q.kind \in Kinds /\ q.mine \in BOOLEAN

(* The request of the effect that still counts.                             *)
Counts(q) == q.kind = "targets" /\ q.mine
Fetching == \E q \in asked : Counts(q)

(* It is for the choice, and while it is missing the targets on display are *)
(* those of the choice.                                                     *)
FormInv ==
  /\ FormShape /\ \A q \in asked : Shaped(q)
  /\ \A q \in asked : Counts(q) => q.device # Nobody /\ <<q.device, q.category>> = Choice
  /\ form.loading => Fetching
  /\ form.device # Nobody /\ ~Fetching => form.liveOf = Choice

(* What two sets of requests have in common: the effect's that count.       *)
SameFetches(before, after) ==
  /\ \A r \in after : Shaped(r)
  /\ \A r \in after : Counts(r) =>
       \E q \in before : Counts(q) /\ q.device = r.device /\ q.category = r.category
  /\ \A q \in before : Counts(q) => \E r \in after : Counts(r)

(* Steps that leave the choice, and the requests that count, as they are.   *)
LEMMA SameChoice ==
  ASSUME FormInv, FormShape', SameFetches(asked, asked'),
         form'.device = form.device, form'.category = form.category,
         form'.liveOf = form.liveOf, form'.loading = form.loading
  PROVE  FormInv'
<1>1. Choice' = Choice
  BY DEF Choice
<1>2. \A q \in asked' : Shaped(q)
  BY DEF SameFetches
<1>3. \A q \in asked' : Counts(q) => q.device # Nobody /\ <<q.device, q.category>> = Choice'
  <2> SUFFICES ASSUME NEW r \in asked', Counts(r)
               PROVE  r.device # Nobody /\ <<r.device, r.category>> = Choice
    BY <1>1
  <2>1. PICK q \in asked : Counts(q) /\ q.device = r.device /\ q.category = r.category
    BY DEF SameFetches
  <2> QED BY <2>1 DEF FormInv
<1>4. Fetching' <=> Fetching
  BY DEF Fetching, SameFetches
<1>5. /\ form'.loading => Fetching'
      /\ form'.device # Nobody /\ ~Fetching' => form'.liveOf = Choice'
  BY <1>1, <1>4 DEF FormInv
<1>6. \A q \in asked' : Shaped(q)' /\ (Counts(q)' <=> Counts(q))
  BY <1>2 DEF Shaped, Counts
<1> QED BY <1>2, <1>3, <1>5, <1>6 DEF FormInv

LEMMA TheirsKeeps ==
  ASSUME \A q \in asked : Shaped(q)
  PROVE  SameFetches(asked, Theirs)
<1> DEFINE M(q) == [q EXCEPT !.mine = @ /\ q.kind = "targets"]
<1>1. ASSUME NEW q \in asked
      PROVE  /\ Shaped(M(q)) /\ M(q).kind = q.kind /\ M(q).device = q.device /\ M(q).category = q.category
             /\ Counts(M(q)) <=> Counts(q)
  <2>1. Shaped(q)
    OBVIOUS
  <2>2. M(q).kind = q.kind /\ M(q).device = q.device /\ M(q).category = q.category
        /\ M(q).mine = (q.mine /\ q.kind = "targets")
    BY <2>1 DEF Shaped, AskedFields
  <2>3. Shaped(M(q))
    BY <2>1 DEF Shaped, AskedFields
  <2> QED BY <2>1, <2>2, <2>3 DEF Counts, Shaped
<1>2. Theirs = {M(q) : q \in asked}
  BY DEF Theirs
<1> HIDE DEF M
<1> QED BY <1>1, <1>2 DEF SameFetches

LEMMA QuietSteps ==
  ASSUME FormInv,
         \/ \E p \in Path \cup {Nobody} : OpenPathModal(p) \/ EditPath(p)
         \/ OpenComputerPathModal \/ CloseForm \/ SubmitBackupForm
         \/ \E p \in Path : TogglePath(p)
         \/ SelectAllBackupTargets \/ ClearBackupTargets \/ ResetBrowseState
         \/ RequestDeleteCustomPath \/ CancelDeleteCustomPath
         \/ UNCHANGED <<form, asked>>
  PROVE  FormInv'
<1>0. FormShape /\ \A q \in asked : Shaped(q)
  BY DEF FormInv
<1>1. SameFetches(asked, asked) /\ SameFetches(asked, Theirs)
  BY <1>0, TheirsKeeps DEF SameFetches
<1>2. asked' = asked \/ asked' = Theirs
  BY DEF OpenPathModal, EditPath, OpenComputerPathModal, CloseForm, SubmitBackupForm, TogglePath,
         SelectAllBackupTargets, ClearBackupTargets, ResetBrowseState, RequestDeleteCustomPath, CancelDeleteCustomPath
<1>3. SameFetches(asked, asked')
  BY <1>1, <1>2
<1> DEFINE Keeps(next) == /\ DOMAIN next = FormFields /\ next = [f \in FormFields |-> next[f]]
                          /\ next.device = form.device /\ next.category = form.category
                          /\ next.liveOf = form.liveOf /\ next.loading = form.loading
<1>4. Keeps(form) /\ Keeps(ClosedForm)
  <2>1. Keeps([form EXCEPT !.selected = {}, !.mixed = FALSE, !.scope = "fleet"])
    BY <1>0 DEF FormShape, FormFields
  <2>2. Keeps([[form EXCEPT !.selected = {}, !.mixed = FALSE, !.scope = "fleet"]
                 EXCEPT !.listing = {}, !.opened = Nobody])
    BY <1>0 DEF FormShape, FormFields
  <2>3. Keeps([[form EXCEPT !.selected = {}, !.mixed = FALSE, !.scope = "fleet"] EXCEPT !.editing = Nobody])
    BY <1>0 DEF FormShape, FormFields
  <2>4. Keeps(form)
    BY <1>0 DEF FormShape
  <2> HIDE DEF Keeps
  <2> QED BY <2>1, <2>2, <2>3, <2>4 DEF ClosedForm
<1>5. Keeps(form')
  <2>1. CASE CloseForm \/ SubmitBackupForm
    BY <1>4, <2>1 DEF CloseForm, SubmitBackupForm
  <2>2. CASE RequestDeleteCustomPath
    <3>1. form' = [ClosedForm EXCEPT !.doomed = form.editing]
      BY <2>2 DEF RequestDeleteCustomPath
    <3> QED BY <1>4, <3>1 DEF FormFields
  <2>3. CASE \/ \E p \in Path \cup {Nobody} : OpenPathModal(p) \/ EditPath(p)
             \/ OpenComputerPathModal \/ CancelDeleteCustomPath
    BY <1>0, <2>3 DEF OpenPathModal, EditPath, OpenComputerPathModal, CancelDeleteCustomPath, FormShape, FormFields
  <2>4. CASE \/ \E p \in Path : TogglePath(p)
             \/ ClearBackupTargets \/ ResetBrowseState
    <3>1. PICK s, l, o : form' = [form EXCEPT !.selected = s, !.listing = l, !.opened = o]
      <4>1. form = [form EXCEPT !.selected = @, !.listing = @, !.opened = @]
        BY <1>0 DEF FormShape, FormFields
      <4>2. ASSUME NEW p \in Path, TogglePath(p)
            PROVE  \E s, l, o : form' = [form EXCEPT !.selected = s, !.listing = l, !.opened = o]
        <5>1. PICK s : form' = [form EXCEPT !.selected = s]
          BY <4>2 DEF TogglePath
        <5>2. form' = [form EXCEPT !.selected = s, !.listing = form.listing, !.opened = form.opened]
          BY <1>0, <5>1 DEF FormShape, FormFields
        <5> QED BY <5>2
      <4>3. CASE ClearBackupTargets
        <5>1. form' = [form EXCEPT !.selected = {}, !.listing = form.listing, !.opened = form.opened]
          BY <1>0, <4>3 DEF ClearBackupTargets, FormShape, FormFields
        <5> QED BY <5>1
      <4>4. CASE ResetBrowseState
        <5>1. form' = [form EXCEPT !.selected = form.selected, !.listing = {}, !.opened = Nobody]
          BY <1>0, <4>4 DEF ResetBrowseState, FormShape, FormFields
        <5> QED BY <5>1
      <4> QED BY <2>4, <4>2, <4>3, <4>4
    <3> QED BY <1>0, <3>1 DEF FormShape, FormFields
  <2>5. CASE SelectAllBackupTargets
    BY <1>0, <2>5 DEF SelectAllBackupTargets, Ticked, FormShape, FormFields
  <2>6. CASE UNCHANGED <<form, asked>>
    BY <1>4, <2>6
  <2> QED BY <2>1, <2>2, <2>3, <2>4, <2>5, <2>6
<1>6. FormShape'
  BY <1>0, <1>5 DEF FormShape
<1> QED BY <1>3, <1>5, <1>6, SameChoice

LEMMA AskedShape ==
  ASSUME NEW kind \in Kinds, NEW d, NEW p
  PROVE  /\ Shaped(FormAsk(kind, d, p)) /\ FormAsk(kind, d, p).kind = kind
         /\ \A ok \in BOOLEAN : Shaped([FormAsk(kind, d, p) EXCEPT !.ok = ok])
                                /\ [FormAsk(kind, d, p) EXCEPT !.ok = ok].kind = kind
BY DEF FormAsk, Shaped, AskedFields

LEMMA FormSendSteps ==
  ASSUME FormInv,
         \/ \E f \in Folder : OpenTargetPath(f) \/ BrowseFiles(f)
         \/ \E p \in (Typed \cup {form.editing}) \ {Nobody} : SaveCustomPath(p)
         \/ DeleteComputerPath \/ ConfirmDeleteCustomPath
  PROVE  FormInv'
<1>0. FormShape /\ \A q \in asked : Shaped(q)
  BY DEF FormInv
<1>1. form' = form
  BY DEF OpenTargetPath, BrowseFiles, SaveCustomPath, DeleteComputerPath, ConfirmDeleteCustomPath
<1>2. PICK q : asked' = asked \cup {q} /\ Shaped(q) /\ q.kind # "targets"
  <2>1. ASSUME NEW f \in Folder, OpenTargetPath(f) \/ BrowseFiles(f)
        PROVE  \E q : asked' = asked \cup {q} /\ Shaped(q) /\ q.kind # "targets"
    <3>1. PICK kind \in Kinds \ {"targets"} : asked' = asked \cup {FormAsk(kind, form.device, f)}
      BY <2>1 DEF OpenTargetPath, BrowseFiles, Kinds
    <3>2. Shaped(FormAsk(kind, form.device, f)) /\ FormAsk(kind, form.device, f).kind # "targets"
      BY AskedShape
    <3> HIDE DEF FormAsk
    <3> QED BY <3>1, <3>2
  <2>2. ASSUME NEW kind \in Kinds, kind # "targets", NEW d, NEW p, NEW ok \in BOOLEAN,
               asked' = asked \cup {[FormAsk(kind, d, p) EXCEPT !.ok = ok]}
        PROVE  \E q : asked' = asked \cup {q} /\ Shaped(q) /\ q.kind # "targets"
    <3> DEFINE r == [FormAsk(kind, d, p) EXCEPT !.ok = ok]
    <3>1. Shaped(r) /\ r.kind # "targets" /\ asked' = asked \cup {r}
      BY <2>2, AskedShape
    <3> HIDE DEF r
    <3> QED BY <3>1
  <2>3. ASSUME NEW p, SaveCustomPath(p)
        PROVE  \E q : asked' = asked \cup {q} /\ Shaped(q) /\ q.kind # "targets"
    <3>1. PICK ok \in BOOLEAN :
            asked' = asked \cup {[FormAsk(IF form.editing = Nobody THEN "save" ELSE "rename",
                                          form.device, p) EXCEPT !.ok = ok]}
      BY <2>3 DEF SaveCustomPath
    <3>2. (IF form.editing = Nobody THEN "save" ELSE "rename") \in Kinds \ {"targets"}
      BY DEF Kinds
    <3> QED BY <2>2, <3>1, <3>2
  <2>4. CASE DeleteComputerPath
    <3>1. PICK ok \in BOOLEAN :
            asked' = asked \cup {[FormAsk("deleteOwn", form.device, form.editing) EXCEPT !.ok = ok]}
      BY <2>4 DEF DeleteComputerPath
    <3> QED BY <2>2, <3>1 DEF Kinds
  <2>5. CASE ConfirmDeleteCustomPath
    <3>1. PICK ok \in BOOLEAN :
            asked' = asked \cup {[FormAsk("deleteCommon", Nobody, form.doomed) EXCEPT !.ok = ok]}
      BY <2>5 DEF ConfirmDeleteCustomPath
    <3> QED BY <2>2, <3>1 DEF Kinds
  <2> QED BY <2>1, <2>3, <2>4, <2>5
<1>3. SameFetches(asked, asked')
  BY <1>0, <1>2 DEF SameFetches, Counts
<1>4. FormShape'
  BY <1>0, <1>1 DEF FormShape
<1> QED BY <1>1, <1>3, <1>4, SameChoice

-----------------------------------------------------------------------------
(* The effect runs for a choice that stays: nothing is cancelled.           *)
LEMMA EffectIdle ==
  ASSUME FormInv, FormShape', Choice' = Choice, NEW requests, NEW new,
         EffectRuns(form', requests, new), SameFetches(asked, requests),
         \A r \in new : Shaped(r) /\ r.kind # "targets",
         form'.loading = form.loading, form.device # Nobody => form'.liveOf = form.liveOf
  PROVE  FormInv'
<1>1. form'.device = form.device /\ form'.category = form.category
  BY DEF Choice
<1>2. asked' = requests \cup new
  BY DEF EffectRuns, Choice
<1>3. SameFetches(asked, asked')
  BY <1>2 DEF SameFetches, Counts
<1>4. \A q \in asked' : Shaped(q)
  BY <1>3 DEF SameFetches
<1>5. \A q \in asked' : Counts(q) => q.device # Nobody /\ <<q.device, q.category>> = Choice'
  <2> SUFFICES ASSUME NEW r \in asked', Counts(r)
               PROVE  r.device # Nobody /\ <<r.device, r.category>> = Choice
    OBVIOUS
  <2>1. PICK q \in asked : Counts(q) /\ q.device = r.device /\ q.category = r.category
    BY <1>3 DEF SameFetches
  <2> QED BY <2>1 DEF FormInv
<1>6. Fetching' <=> Fetching
  BY <1>3 DEF Fetching, SameFetches
<1>7. /\ form'.loading => Fetching'
      /\ form'.device # Nobody /\ ~Fetching' => form'.liveOf = Choice'
  BY <1>1, <1>6 DEF FormInv
<1> QED BY <1>4, <1>5, <1>7 DEF FormInv, Counts, Shaped

(* A new choice: what was asked before is cancelled, and its own targets    *)
(* are asked for.                                                           *)
LEMMA EffectFetches ==
  ASSUME FormShape', Choice' # Choice, NEW requests, NEW new,
         EffectRuns(form', requests, new), \A r \in requests : Shaped(r),
         \A r \in new : Shaped(r) /\ r.kind # "targets",
         form'.device = Nobody => ~form'.loading
  PROVE  FormInv'
<1> DEFINE fetch == IF form'.device = Nobody THEN {} ELSE {FetchTargets(form'.device, form'.category)}
           cancelled == {[q EXCEPT !.mine = FALSE] : q \in requests}
<1>1. asked' = cancelled \cup new \cup fetch
  BY DEF EffectRuns, Choice
<1>2. \A r \in cancelled : Shaped(r) /\ ~Counts(r)
  <2> SUFFICES ASSUME NEW q \in requests
               PROVE  Shaped([q EXCEPT !.mine = FALSE]) /\ ~Counts([q EXCEPT !.mine = FALSE])
    OBVIOUS
  <2>1. Shaped(q)
    OBVIOUS
  <2> QED BY <2>1 DEF Shaped, AskedFields, Counts
<1>3. ASSUME NEW d, NEW category
      PROVE  /\ Shaped(FetchTargets(d, category)) /\ Counts(FetchTargets(d, category))
             /\ FetchTargets(d, category).device = d /\ FetchTargets(d, category).category = category
  BY DEF FetchTargets, FormAsk, Shaped, Counts, AskedFields, Kinds
<1>4. \A r \in new : Shaped(r) /\ ~Counts(r)
  BY DEF Counts
<1>5. /\ \A r \in fetch : Shaped(r) /\ Counts(r) /\ r.device # Nobody
                          /\ r.device = form'.device /\ r.category = form'.category
      /\ form'.device # Nobody => fetch # {}
  BY <1>3
<1> HIDE DEF fetch, cancelled
<1>6. \A q \in asked' : Shaped(q)
  BY <1>1, <1>2, <1>4, <1>5
<1>7. \A q \in asked' : Counts(q) => q.device # Nobody /\ <<q.device, q.category>> = Choice'
  BY <1>1, <1>2, <1>4, <1>5 DEF Choice
<1>8. form'.device # Nobody => Fetching'
  BY <1>1, <1>5 DEF Fetching
<1> QED BY <1>6, <1>7, <1>8 DEF FormInv, Counts, Shaped

(* The dialogs and choosers that may change the choice.                     *)
LEMMA ListRequest ==
  ASSUME NEW f, NEW d
  PROVE  \A r \in {FormAsk("list", d, f)} : Shaped(r) /\ r.kind # "targets"
BY AskedShape DEF Kinds

LEMMA OpenSteps ==
  ASSUME FormInv, OpenBackupModal \/ OpenBrowseModal
  PROVE  FormInv'
<1>0. FormShape /\ \A q \in asked : Shaped(q)
  BY DEF FormInv
<1>1. SameFetches(asked, Theirs)
  BY <1>0, TheirsKeeps
<1>2. \A r \in Theirs : Shaped(r)
  BY <1>1 DEF SameFetches
<1>3. PICK new : EffectRuns(form', Theirs, new) /\ \A r \in new : Shaped(r) /\ r.kind # "targets"
  <2>1. CASE EffectRuns(form', Theirs, {})
    BY <2>1
  <2>2. ASSUME NEW f \in Folder, EffectRuns(form', Theirs, {FormAsk("list", form.device, f)})
        PROVE  \E new : EffectRuns(form', Theirs, new) /\ \A r \in new : Shaped(r) /\ r.kind # "targets"
    BY <2>2, ListRequest
  <2> QED BY <2>1, <2>2 DEF OpenBackupModal, OpenBrowseModal
<1> DEFINE loads == form.loading \/ (form.device # Nobody /\ form.category # "robot")
<1>4. /\ FormShape' /\ form'.device = form.device /\ form'.category = "robot"
      /\ form'.loading = loads /\ form'.liveOf = form.liveOf
  <2>1. form' = AsRobot \/ form' = [AsRobot EXCEPT !.selected = {}]
    BY DEF OpenBackupModal, OpenBrowseModal
  <2>2. /\ DOMAIN AsRobot = FormFields /\ AsRobot = [f \in FormFields |-> AsRobot[f]]
        /\ AsRobot.device = form.device /\ AsRobot.category = "robot"
        /\ AsRobot.loading = loads /\ AsRobot.liveOf = form.liveOf
    BY <1>0 DEF AsRobot, FormShape, FormFields
  <2>3. loads \in BOOLEAN
    OBVIOUS
  <2> HIDE DEF loads
  <2> QED BY <2>1, <2>2, <2>3 DEF FormShape, FormFields
<1>5. form.loading => form.device # Nobody
  BY DEF FormInv, Fetching, Choice
<1>6. CASE Choice' = Choice
  <2>1. form.category = "robot"
    BY <1>4, <1>6 DEF Choice
  <2>2. form'.loading = form.loading
    BY <1>0, <1>4, <2>1 DEF FormShape
  <2> QED BY <1>1, <1>3, <1>4, <1>6, <2>2, EffectIdle
<1>7. CASE Choice' # Choice
  <2>1. form'.device = Nobody => ~form'.loading
    BY <1>4, <1>5
  <2> QED BY <1>2, <1>3, <1>4, <1>7, <2>1, EffectFetches
<1> QED BY <1>6, <1>7

LEMMA ChooseSteps ==
  ASSUME FormInv,
         \/ \E d \in Device \cup {Nobody} : ChangeDevice(d) \/ BrowseDevice(d)
         \/ \E category \in Category : ChangeBackupCategory(category)
  PROVE  FormInv'
<1>0. FormShape /\ \A q \in asked : Shaped(q)
  BY DEF FormInv
<1>1. SameFetches(asked, Theirs)
  BY <1>0, TheirsKeeps
<1>2. \A r \in Theirs : Shaped(r)
  BY <1>1 DEF SameFetches
<1>3. ASSUME NEW d \in Device \cup {Nobody}, ChangeDevice(d) \/ BrowseDevice(d)
      PROVE  FormInv'
  <2>1. PICK new : EffectRuns(form', Theirs, new) /\ \A r \in new : Shaped(r) /\ r.kind # "targets"
    <3>1. CASE EffectRuns(form', Theirs, {})
      BY <3>1
    <3>2. ASSUME NEW f \in Folder, EffectRuns(form', Theirs, {FormAsk("list", d, f)})
          PROVE  \E new : EffectRuns(form', Theirs, new) /\ \A r \in new : Shaped(r) /\ r.kind # "targets"
      BY <3>2, ListRequest
    <3> QED BY <1>3, <3>1, <3>2 DEF ChangeDevice, BrowseDevice
  <2>2. /\ DOMAIN Rechosen(d) = FormFields /\ Rechosen(d) = [f \in FormFields |-> Rechosen(d)[f]]
        /\ Rechosen(d).device = d /\ Rechosen(d).loading = (d # Nobody)
    BY <1>0 DEF Rechosen, FormShape, FormFields
  <2>3. form' = Rechosen(d) \/ form' = [Rechosen(d) EXCEPT !.listing = {}]
    BY <1>3 DEF ChangeDevice, BrowseDevice
  <2> HIDE DEF Rechosen
  <2>4. FormShape' /\ form'.device = d /\ form'.loading = (d # Nobody)
    BY <2>2, <2>3 DEF FormShape, FormFields
  <2>5. d # form.device
    BY <1>3 DEF ChangeDevice, BrowseDevice
  <2>6. Choice' # Choice
    BY <2>4, <2>5 DEF Choice
  <2> QED BY <1>2, <2>1, <2>4, <2>6, EffectFetches
<1>4. ASSUME NEW category \in Category, ChangeBackupCategory(category)
      PROVE  FormInv'
  <2>1. EffectRuns(form', Theirs, {})
    BY <1>4 DEF ChangeBackupCategory
  <2>2. FormShape' /\ form'.device = Nobody /\ form'.loading = FALSE /\ form'.category = category
    BY <1>0, <1>4 DEF ChangeBackupCategory, FormShape, FormFields
  <2>3. CASE Choice' # Choice
    BY <1>2, <2>1, <2>2, <2>3, EffectFetches
  <2>4. CASE Choice' = Choice
    <3>1. form.device = Nobody
      BY <2>2, <2>4 DEF Choice
    <3>2. ~Fetching
      BY <3>1 DEF FormInv, Fetching, Choice
    <3>3. form'.loading = form.loading
      BY <2>2, <3>2 DEF FormInv, FormShape
    <3> QED BY <1>1, <2>1, <2>2, <2>4, <3>1, <3>3, EffectIdle
  <2> QED BY <2>3, <2>4
<1> QED BY <1>3, <1>4

-----------------------------------------------------------------------------
(* The reply to the effect's request, as it comes or as it fails.           *)
LEMMA TargetsArrive ==
  ASSUME FormInv, NEW q \in asked, q.kind = "targets", NEW targets, NEW m,
         asked' = asked \ {q}, form' = [TargetsReply(q, targets) EXCEPT !.mixed = m]
  PROVE  FormInv'
<1>0. FormShape /\ Shaped(q) /\ \A r \in asked' : Shaped(r)
  BY DEF FormInv
<1>1. CASE q.mine
  <2>1. form' = [[form EXCEPT !.live = targets, !.liveOf = <<q.device, q.category>>, !.loading = FALSE]
                   EXCEPT !.mixed = m]
    BY <1>1 DEF TargetsReply
  <2>2. /\ FormShape' /\ form'.device = form.device /\ form'.category = form.category
        /\ form'.loading = FALSE /\ form'.liveOf = <<q.device, q.category>>
    BY <1>0, <2>1 DEF FormShape, FormFields
  <2>3. Choice' = Choice /\ form'.liveOf = Choice
    BY <1>1, <2>2 DEF Choice, FormInv, Counts
  <2>4. \A r \in asked' : Counts(r) => r.device # Nobody /\ <<r.device, r.category>> = Choice'
    BY <2>3 DEF FormInv
  <2> QED BY <1>0, <2>2, <2>3, <2>4 DEF FormInv, Counts, Shaped
<1>2. CASE ~q.mine
  <2>1. form' = [form EXCEPT !.mixed = m]
    BY <1>2 DEF TargetsReply
  <2>2. /\ FormShape' /\ form'.device = form.device /\ form'.category = form.category
        /\ form'.loading = form.loading /\ form'.liveOf = form.liveOf
    BY <1>0, <2>1 DEF FormShape, FormFields
  <2>3. SameFetches(asked, asked')
    BY <1>0, <1>2 DEF SameFetches, Counts
  <2> QED BY <2>2, <2>3, SameChoice
<1> QED BY <1>1, <1>2

LEMMA FormReplies ==
  ASSUME FormInv, NEW q \in asked, FormReply(q) \/ FormReplyFails(q)
  PROVE  FormInv'
<1>0. FormShape /\ Shaped(q) /\ \A r \in asked : Shaped(r)
  BY DEF FormInv
<1>1. asked' = asked \ {q}
  BY DEF FormReply, FormReplyFails
<1>2. CASE q.kind = "targets"
  <2>1. CASE FormReply(q)
    <3>1. form' = [TargetsReply(q, q.seen) EXCEPT !.mixed = @ \/ (~q.mine /\ q.kind # "targets")]
      BY <1>2, <2>1 DEF FormReply, AfterReply
    <3> QED BY <1>1, <1>2, <3>1, TargetsArrive
  <2>2. CASE FormReplyFails(q)
    <3> DEFINE targets == q.spare
    <3>1. form' = TargetsReply(q, targets)
      BY <1>2, <2>2 DEF FormReplyFails
    <3>2. form' = [TargetsReply(q, targets) EXCEPT !.mixed = TargetsReply(q, targets).mixed]
      BY <1>0, <3>1 DEF TargetsReply, FormShape, FormFields
    <3> HIDE DEF targets
    <3> QED BY <1>1, <1>2, <3>2, TargetsArrive
  <2> QED BY <2>1, <2>2
<1>3. CASE q.kind # "targets"
  <2>1. SameFetches(asked, asked')
    BY <1>0, <1>1, <1>3 DEF SameFetches, Counts
  <2> DEFINE Keeps(next) == /\ DOMAIN next = FormFields /\ next = [f \in FormFields |-> next[f]]
                            /\ next.device = form.device /\ next.category = form.category
                            /\ next.liveOf = form.liveOf /\ next.loading = form.loading
  <2>2. Keeps(AfterReply(q)) /\ Keeps(form)
    <3>1. CASE q.kind \in {"list", "open"}
      BY <1>0, <3>1 DEF AfterReply, FormShape, FormFields
    <3>2. CASE q.kind \in {"save", "rename"}
      BY <1>0, <3>2 DEF AfterReply, FormShape, FormFields
    <3>3. CASE q.kind = "deleteOwn"
      BY <1>0, <3>3 DEF AfterReply, FormShape, FormFields
    <3>4. CASE q.kind = "deleteCommon"
      BY <1>0, <3>4 DEF AfterReply, FormShape, FormFields
    <3>5. q.kind \in Kinds
      BY <1>0 DEF Shaped
    <3> QED BY <1>0, <1>3, <3>1, <3>2, <3>3, <3>4, <3>5 DEF Kinds, FormShape
  <2>3. Keeps(form')
    <3>1. form' = [AfterReply(q) EXCEPT !.mixed = @ \/ (~q.mine /\ q.kind # "targets")] \/ form' = form
      BY <1>3 DEF FormReply, FormReplyFails
    <3> HIDE DEF AfterReply
    <3> QED BY <2>2, <3>1 DEF FormFields
  <2>4. FormShape'
    BY <1>0, <2>3 DEF FormShape
  <2> QED BY <2>1, <2>3, <2>4, SameChoice
<1> QED BY <1>2, <1>3

LEMMA FormInitInv == FormInit => FormInv
<1> SUFFICES ASSUME FormInit PROVE FormInv
  OBVIOUS
<1>1. FormShape /\ form.loading = FALSE /\ form.device = Nobody
  BY DEF FormInit, NewForm, FormShape, FormFields
<1>2. asked = {}
  BY DEF FormInit
<1> QED BY <1>1, <1>2 DEF FormInv

LEMMA FormNextInv == FormInv /\ [FormNext]_<<formVars, paths>> => FormInv'
<1> SUFFICES ASSUME FormInv, [FormNext]_<<formVars, paths>> PROVE FormInv'
  OBVIOUS
<1>1. CASE \/ \E p \in Path \cup {Nobody} : OpenPathModal(p) \/ EditPath(p)
           \/ OpenComputerPathModal \/ CloseForm \/ SubmitBackupForm
           \/ \E p \in Path : TogglePath(p)
           \/ SelectAllBackupTargets \/ ClearBackupTargets \/ ResetBrowseState
           \/ RequestDeleteCustomPath \/ CancelDeleteCustomPath
  BY <1>1, QuietSteps
<1>2. CASE \/ \E f \in Folder : OpenTargetPath(f) \/ BrowseFiles(f)
           \/ \E p \in (Typed \cup {form.editing}) \ {Nobody} : SaveCustomPath(p)
           \/ DeleteComputerPath \/ ConfirmDeleteCustomPath
  BY <1>2, FormSendSteps
<1>3. CASE OpenBackupModal \/ OpenBrowseModal
  BY <1>3, OpenSteps
<1>4. CASE \/ \E d \in Device \cup {Nobody} : ChangeDevice(d) \/ BrowseDevice(d)
           \/ \E category \in Category : ChangeBackupCategory(category)
  BY <1>4, ChooseSteps
<1>5. CASE \E q \in asked : FormReply(q) \/ FormReplyFails(q)
  BY <1>5, FormReplies
<1>6. CASE UNCHANGED <<formVars, paths>>
  <2>1. UNCHANGED <<form, asked>>
    BY <1>6 DEF formVars
  <2> QED BY <2>1, QuietSteps
<1> QED BY <1>1, <1>2, <1>3, <1>4, <1>5, <1>6 DEF FormNext, FormStep

LEMMA FormInvTargets == FormInv => TargetsAreOfTheChoice
<1> SUFFICES ASSUME FormInv PROVE TargetsAreOfTheChoice
  OBVIOUS
<1>1. Fetching <=> \E q \in asked : q.kind = "targets" /\ q.mine
  BY DEF Fetching, Counts
<1> QED BY <1>1 DEF FormInv, TargetsAreOfTheChoice

(* However often device and category change while their targets are on the  *)
(* way, the targets shown in the end are those of the choice, and "loading" *)
(* only stands while they are (the effect of lines 119-147).                *)
THEOREM TargetsFollowTheChoice == FormSpec => []TargetsAreOfTheChoice
<1>1. FormInit /\ PathsTypeOK => FormInv
  BY FormInitInv
<1> QED BY <1>1, FormInvTargets, FormNextInv, PTL DEF FormSpec

-----------------------------------------------------------------------------
Wizards ==
  [step : 1 .. 4, mode : {"backup", "upload"}, listed : BOOLEAN, backup : Backup \cup {Nobody},
   targeted : BOOLEAN, detail : Backup \cup {Nobody}, ticked : SUBSET BackupFile,
   groupPaths : [FileKind -> GroupPath], fallback : BOOLEAN, files : BOOLEAN, saving : BOOLEAN, failed : BOOLEAN]

Submitted == {q \in posted : q.kind \in {"restore", "upload"}}

(* Only files on display can be ticked.                                     *)
TickedIsShown == wizard.ticked \subseteq FilesOf(wizard.detail)

(* A detail request that was not dropped is for the choice.                 *)
CurrentIsTheChoice ==
  \A q \in posted : q.kind = "detail" /\ q.current => q.backup = DetailOf(wizard)

(* The items sent are the ticked files.                                     *)
ItemsAreTicked == \A q \in Submitted : {item[1] : item \in q.items} = q.ticked

RestoreInv ==
  /\ RestoreTypeOK
  /\ TickedIsShown /\ CurrentIsTheChoice /\ DetailIsOfTheChoice
  /\ ItemsAreTicked

-----------------------------------------------------------------------------
LEMMA FilesOfBackups ==
  ASSUME NEW b \in Backup \cup {Nobody}
  PROVE  FilesOf(b) \subseteq BackupFile
BY DevicesOK DEF FilesOf, BackupFile

LEMMA PostTypes ==
  ASSUME NEW kind \in {"list", "detail", "restore", "upload"}, NEW b \in Backup \cup {Nobody}
  PROVE  Post(kind, b) \in RestoreRequest
BY DEF Post, RestoreRequest

LEMMA RestoreInitInv == RestoreInit => RestoreInv
<1> SUFFICES ASSUME RestoreInit PROVE RestoreInv
  OBVIOUS
<1>1. wizard \in Wizards /\ posted \in SUBSET RestoreRequest
  BY PostTypes DEF RestoreInit, NewWizard, DefaultPaths, GroupPath, Wizards
<1>2. \A q \in posted : q.kind = "list"
  BY DEF RestoreInit, Post
<1> QED
  BY <1>1, <1>2
  DEF RestoreInv, RestoreTypeOK, Wizards, TickedIsShown, CurrentIsTheChoice, DetailIsOfTheChoice,
      ItemsAreTicked, Submitted, RestoreInit, NewWizard, DetailOf

(* Steps that change what is ticked, or less.                               *)
LEMMA RestoreKeepsInv ==
  ASSUME RestoreInv, wizard' \in Wizards, posted' = posted,
         wizard'.mode = wizard.mode, wizard'.backup = wizard.backup, wizard'.detail = wizard.detail,
         wizard'.saving = wizard.saving, wizard'.failed = wizard.failed,
         wizard'.ticked \subseteq FilesOf(wizard.detail)
  PROVE  RestoreInv'
<1>1. DetailOf(wizard)' = DetailOf(wizard)
  BY DEF DetailOf
<1>2. Submitted' = Submitted
  BY DEF Submitted
<1>3. RestoreTypeOK'
  BY DEF RestoreInv, RestoreTypeOK, Wizards
<1>4. TickedIsShown'
  BY DEF TickedIsShown
<1>5. CurrentIsTheChoice' /\ DetailIsOfTheChoice'
  BY <1>1 DEF RestoreInv, CurrentIsTheChoice, DetailIsOfTheChoice
<1>6. ItemsAreTicked'
  BY <1>2 DEF RestoreInv, ItemsAreTicked
<1> QED
  BY <1>3, <1>4, <1>5, <1>6 DEF RestoreInv

(* A new choice drops the requests of the old one; requests are taken away  *)
(* only if they are lists.                                                  *)
LEMMA EffectKeepsInv ==
  ASSUME RestoreInv, NEW next \in Wizards, NEW requests \in SUBSET posted,
         \A q \in posted \ requests : q.kind = "list",
         next.detail = wizard.detail, next.ticked = wizard.ticked, next.saving = wizard.saving,
         next.failed = wizard.failed, DetailEffect(next, requests)
  PROVE  RestoreInv'
<1> DEFINE dropped == {IF q.kind = "detail" THEN [q EXCEPT !.current = FALSE] ELSE q : q \in requests}
<1>0. posted \subseteq RestoreRequest /\ wizard \in Wizards
  BY DEF RestoreInv, RestoreTypeOK, Wizards
<1>1. dropped \subseteq RestoreRequest
  <2> SUFFICES ASSUME NEW q \in requests
               PROVE  (IF q.kind = "detail" THEN [q EXCEPT !.current = FALSE] ELSE q) \in RestoreRequest
    OBVIOUS
  <2>1. CASE q.kind = "detail"
    <3>0. q \in RestoreRequest
      BY <1>0
    <3>1. [q EXCEPT !.current = FALSE] \in RestoreRequest
      BY <3>0 DEF RestoreRequest
    <3> QED BY <2>1, <3>1
  <2>2. CASE q.kind # "detail"
    BY <1>0, <2>2
  <2> QED BY <2>1, <2>2
<1>2. \A q \in dropped : q.kind = "detail" => ~q.current
  <2> SUFFICES ASSUME NEW q \in requests
               PROVE  LET d == IF q.kind = "detail" THEN [q EXCEPT !.current = FALSE] ELSE q
                      IN d.kind = "detail" => ~d.current
    OBVIOUS
  <2> QED BY <1>0 DEF RestoreRequest
<1>3. {q \in dropped : q.kind \in {"restore", "upload"}} = Submitted
  <2>1. ASSUME NEW q \in requests, q.kind = "detail"
        PROVE  [q EXCEPT !.current = FALSE].kind \notin {"restore", "upload"}
    BY <1>0, <2>1 DEF RestoreRequest
  <2>2. ASSUME NEW d \in dropped, d.kind \in {"restore", "upload"} PROVE d \in Submitted
    <3>1. PICK q \in requests : d = IF q.kind = "detail" THEN [q EXCEPT !.current = FALSE] ELSE q
      OBVIOUS
    <3> QED BY <2>1, <2>2, <3>1 DEF Submitted
  <2>3. ASSUME NEW q \in Submitted PROVE q \in dropped
    <3>1. q \in requests /\ q.kind # "detail"
      BY DEF Submitted
    <3> QED BY <3>1
  <2> HIDE DEF dropped
  <2> QED BY <2>2, <2>3 DEF Submitted
<1>4. CASE <<next.mode, next.backup>> = <<wizard.mode, wizard.backup>>
  <2>1. wizard' = next /\ posted' = requests
    BY <1>4 DEF DetailEffect
  <2>2. DetailOf(wizard)' = DetailOf(wizard)
    BY <1>4, <2>1 DEF DetailOf
  <2>3. Submitted' = Submitted
    BY <2>1 DEF Submitted
  <2>4. RestoreTypeOK'
    BY <2>1 DEF RestoreInv, RestoreTypeOK, Wizards
  <2>5. TickedIsShown'
    BY <2>1 DEF RestoreInv, TickedIsShown
  <2>6. CurrentIsTheChoice' /\ DetailIsOfTheChoice'
    BY <2>1, <2>2 DEF RestoreInv, CurrentIsTheChoice, DetailIsOfTheChoice
  <2>7. ItemsAreTicked'
    BY <2>1, <2>3 DEF RestoreInv, ItemsAreTicked
  <2> QED BY <2>4, <2>5, <2>6, <2>7 DEF RestoreInv
<1>5. CASE <<next.mode, next.backup>> # <<wizard.mode, wizard.backup>> /\ DetailOf(next) = Nobody
  <2>1. wizard' = [next EXCEPT !.detail = Nobody, !.ticked = {}, !.failed = FALSE] /\ posted' = dropped
    BY <1>5 DEF DetailEffect
  <2>2. /\ wizard' \in Wizards /\ wizard'.detail = Nobody /\ wizard'.ticked = {}
        /\ wizard'.mode = next.mode /\ wizard'.backup = next.backup /\ wizard'.saving = wizard.saving
    BY <2>1 DEF Wizards
  <2>3. DetailOf(wizard)' = Nobody
    BY <1>5, <2>2 DEF DetailOf
  <2>4. Submitted' = Submitted
    BY <1>3, <2>1 DEF Submitted
  <2>5. RestoreTypeOK'
    BY <1>1, <2>1, <2>2 DEF RestoreTypeOK, Wizards
  <2>6. TickedIsShown' /\ CurrentIsTheChoice' /\ DetailIsOfTheChoice'
    BY <1>2, <2>1, <2>2, <2>3 DEF TickedIsShown, CurrentIsTheChoice, DetailIsOfTheChoice
  <2>7. ItemsAreTicked'
    BY <2>2, <2>4 DEF RestoreInv, ItemsAreTicked
  <2> QED BY <2>5, <2>6, <2>7 DEF RestoreInv
<1>6. CASE <<next.mode, next.backup>> # <<wizard.mode, wizard.backup>> /\ DetailOf(next) # Nobody
  <2> DEFINE new == Post("detail", next.backup)
  <2>1. wizard' = [next EXCEPT !.failed = FALSE] /\ posted' = dropped \cup {new}
    BY <1>6 DEF DetailEffect
  <2>2. /\ wizard' \in Wizards /\ wizard'.detail = wizard.detail /\ wizard'.ticked = wizard.ticked
        /\ wizard'.mode = next.mode /\ wizard'.backup = next.backup /\ wizard'.saving = wizard.saving
    BY <2>1 DEF Wizards
  <2>3. DetailOf(wizard)' = next.backup
    BY <1>6, <2>2 DEF DetailOf
  <2>4. new \in RestoreRequest /\ new.kind = "detail" /\ new.backup = next.backup /\ new.current
    BY PostTypes DEF Post, Wizards
  <2>5. Submitted' = Submitted
    BY <1>3, <2>1, <2>4 DEF Submitted
  <2>6. RestoreTypeOK'
    BY <1>1, <2>1, <2>2, <2>4 DEF RestoreTypeOK, Wizards
  <2>7. TickedIsShown' /\ CurrentIsTheChoice' /\ DetailIsOfTheChoice'
    BY <1>2, <2>1, <2>2, <2>3, <2>4 DEF RestoreInv, TickedIsShown, CurrentIsTheChoice, DetailIsOfTheChoice
  <2>8. ItemsAreTicked'
    BY <2>2, <2>5 DEF RestoreInv, ItemsAreTicked
  <2> QED BY <2>6, <2>7, <2>8 DEF RestoreInv
<1> QED BY <1>4, <1>5, <1>6

-----------------------------------------------------------------------------
LEMMA ListKeepsInv ==
  ASSUME RestoreInv, NEW q \in posted, ListReply(q)
  PROVE  RestoreInv'
<1>0. wizard \in Wizards
  BY DEF RestoreInv, RestoreTypeOK, Wizards
<1>1. ASSUME NEW b \in Backup \cup {Nobody}, NEW device \in BOOLEAN,
             DetailEffect([wizard EXCEPT !.listed = TRUE, !.backup = b, !.targeted = device], posted \ {q})
      PROVE  RestoreInv'
  <2> DEFINE next == [wizard EXCEPT !.listed = TRUE, !.backup = b, !.targeted = device]
  <2>1. /\ next \in Wizards /\ next.detail = wizard.detail /\ next.ticked = wizard.ticked
        /\ next.saving = wizard.saving /\ next.failed = wizard.failed
    BY <1>0 DEF Wizards
  <2>2. q.kind = "list"
    BY DEF ListReply
  <2> HIDE DEF next
  <2>3. DetailEffect(next, posted \ {q})
    BY <1>1 DEF next
  <2> QED BY <2>1, <2>2, <2>3, EffectKeepsInv
<1>2. CASE posted' = posted \ {q} /\ UNCHANGED wizard
  <2>1. q.kind = "list"
    BY DEF ListReply
  <2>2. Submitted' = Submitted /\ DetailOf(wizard)' = DetailOf(wizard)
    BY <1>2, <2>1 DEF Submitted, DetailOf
  <2>3. RestoreTypeOK' /\ TickedIsShown'
    BY <1>2 DEF RestoreInv, RestoreTypeOK, TickedIsShown
  <2>4. CurrentIsTheChoice' /\ DetailIsOfTheChoice'
    BY <1>2, <2>1, <2>2 DEF RestoreInv, CurrentIsTheChoice, DetailIsOfTheChoice
  <2>5. ItemsAreTicked'
    BY <1>2, <2>2 DEF RestoreInv, ItemsAreTicked
  <2> QED BY <2>3, <2>4, <2>5 DEF RestoreInv
<1> QED BY <1>1, <1>2 DEF ListReply

(* The detail shown is the choice's, because only its request is current.   *)
LEMMA DetailKeepsInv ==
  ASSUME RestoreInv, NEW q \in posted, DetailReply(q) \/ DetailReplyFails(q)
  PROVE  RestoreInv'
<1>0. wizard \in Wizards /\ q \in RestoreRequest
  BY DEF RestoreInv, RestoreTypeOK, Wizards
<1>1. posted' = posted \ {q} /\ q.kind = "detail"
  BY DEF DetailReply, DetailReplyFails
<1>2. Submitted' = Submitted
  BY <1>1 DEF Submitted
<1>3. CASE DetailReply(q) /\ q.current
  <2>1. wizard' = [wizard EXCEPT !.detail = q.backup, !.ticked = FilesOf(q.backup),
                     !.groupPaths = DefaultPaths, !.targeted = TRUE]
    BY <1>3 DEF DetailReply
  <2>2. q.backup \in Backup \cup {Nobody} /\ FilesOf(q.backup) \subseteq BackupFile
    BY <1>0, FilesOfBackups DEF RestoreRequest
  <2>3. /\ wizard' \in Wizards /\ wizard'.detail = q.backup /\ wizard'.ticked = FilesOf(q.backup)
        /\ wizard'.mode = wizard.mode /\ wizard'.backup = wizard.backup /\ wizard'.saving = wizard.saving
    <3>1. DefaultPaths \in [FileKind -> GroupPath]
      BY DEF DefaultPaths, GroupPath
    <3> QED BY <1>0, <2>1, <2>2, <3>1 DEF Wizards
  <2>4. DetailOf(wizard)' = DetailOf(wizard) /\ q.backup = DetailOf(wizard)
    BY <1>1, <1>3, <2>3 DEF RestoreInv, CurrentIsTheChoice, DetailOf
  <2>5. RestoreTypeOK'
    BY <1>1, <2>3 DEF RestoreInv, RestoreTypeOK, Wizards
  <2>6. TickedIsShown' /\ CurrentIsTheChoice' /\ DetailIsOfTheChoice'
    BY <1>1, <2>3, <2>4 DEF RestoreInv, TickedIsShown, CurrentIsTheChoice, DetailIsOfTheChoice
  <2>7. ItemsAreTicked'
    BY <1>2, <2>3 DEF RestoreInv, ItemsAreTicked
  <2> QED BY <2>5, <2>6, <2>7 DEF RestoreInv
<1>4. CASE ~(DetailReply(q) /\ q.current)
  <2>1. wizard' = [wizard EXCEPT !.failed = @ \/ q.current] \/ (wizard' = wizard /\ ~q.current)
    BY <1>4 DEF DetailReply, DetailReplyFails
  <2>2. /\ wizard' \in Wizards /\ wizard'.detail = wizard.detail /\ wizard'.ticked = wizard.ticked
        /\ wizard'.mode = wizard.mode /\ wizard'.backup = wizard.backup /\ wizard'.saving = wizard.saving
        /\ ~wizard'.failed => ~wizard.failed /\ ~q.current
    BY <1>0, <2>1 DEF Wizards, RestoreRequest
  <2>3. DetailOf(wizard)' = DetailOf(wizard)
    BY <2>2 DEF DetailOf
  <2>4. RestoreTypeOK'
    BY <1>1, <2>2 DEF RestoreInv, RestoreTypeOK, Wizards
  <2>5. TickedIsShown' /\ CurrentIsTheChoice' /\ DetailIsOfTheChoice'
    BY <1>1, <2>2, <2>3 DEF RestoreInv, TickedIsShown, CurrentIsTheChoice, DetailIsOfTheChoice
  <2>6. ItemsAreTicked'
    BY <1>2, <2>2 DEF RestoreInv, ItemsAreTicked
  <2> QED BY <2>4, <2>5, <2>6 DEF RestoreInv
<1> QED BY <1>3, <1>4

-----------------------------------------------------------------------------
LEMMA TargetTypes ==
  ASSUME RestoreTypeOK, NEW file \in BackupFile
  PROVE  FinalTarget(file) \in Target
<1>1. KindOf[file] \in FileKind
  BY KindsOK
<1> QED BY <1>1 DEF FinalTarget, Target, FileKind

(* The files of the items are the ticked ones.                              *)
LEMMA ItemsTypes ==
  ASSUME RestoreInv
  PROVE  /\ Items \in SUBSET (BackupFile \X Target)
         /\ {item[1] : item \in Items} = wizard.ticked
<1>1. wizard.ticked \subseteq BackupFile /\ wizard.ticked \cap FilesOf(wizard.detail) = wizard.ticked
  BY DEF RestoreInv, RestoreTypeOK, TickedIsShown
<1>2. \A file \in wizard.ticked : FinalTarget(file) \in Target
  BY <1>1, TargetTypes DEF RestoreInv
<1>3. Items = {<<file, FinalTarget(file)>> : file \in wizard.ticked}
  BY <1>1 DEF Items
<1>4. ASSUME NEW item \in Items PROVE item \in BackupFile \X Target /\ item[1] \in wizard.ticked
  <2>1. PICK file \in wizard.ticked : item = <<file, FinalTarget(file)>>
    BY <1>3
  <2> QED BY <1>1, <1>2, <2>1
<1>5. ASSUME NEW file \in wizard.ticked PROVE \E item \in Items : item[1] = file
  <2>1. <<file, FinalTarget(file)>> \in Items
    BY <1>3
  <2>2. <<file, FinalTarget(file)>>[1] = file
    OBVIOUS
  <2> QED BY <2>1, <2>2
<1>6. Items \subseteq BackupFile \X Target
  BY <1>4
<1>7. {item[1] : item \in Items} = wizard.ticked
  <2> DEFINE shown == {item[1] : item \in Items}
  <2>1. \A file \in shown : file \in wizard.ticked
    BY <1>4
  <2>2. \A file \in wizard.ticked : file \in shown
    BY <1>5
  <2> QED BY <2>1, <2>2
<1> QED BY <1>6, <1>7

LEMMA SubmitKeepsInv ==
  ASSUME RestoreInv, SubmitRestore \/ SubmitUpload
  PROVE  RestoreInv'
<1> DEFINE restore == [Post("restore", wizard.backup) EXCEPT !.items = Items, !.ticked = wizard.ticked]
           upload == Post("upload", Nobody)
<1>0. wizard \in Wizards
  BY DEF RestoreInv, RestoreTypeOK, Wizards
<1>1. /\ restore \in RestoreRequest /\ restore.kind = "restore" /\ restore.items = Items
      /\ restore.ticked = wizard.ticked
  BY <1>0, ItemsTypes DEF Post, RestoreRequest, Wizards
<1>2. upload \in RestoreRequest /\ upload.kind = "upload" /\ upload.items = {} /\ upload.ticked = {}
  BY DEF Post, RestoreRequest
<1>3. /\ wizard' = [wizard EXCEPT !.saving = TRUE]
      /\ posted' = posted \cup {restore} \/ posted' = posted \cup {upload}
  BY DEF SubmitRestore, SubmitUpload
<1> HIDE DEF restore, upload
<1>4. /\ wizard' \in Wizards /\ wizard'.detail = wizard.detail /\ wizard'.ticked = wizard.ticked
      /\ wizard'.mode = wizard.mode /\ wizard'.backup = wizard.backup /\ wizard'.failed = wizard.failed
  BY <1>0, <1>3 DEF Wizards
<1>5. PICK q \in RestoreRequest :
        /\ posted' = posted \cup {q} /\ q.kind \in {"restore", "upload"}
        /\ {item[1] : item \in q.items} = q.ticked
  <2>1. CASE posted' = posted \cup {restore}
    BY <1>1, <2>1, ItemsTypes
  <2>2. CASE posted' = posted \cup {upload}
    <3>1. {item[1] : item \in {}} = {}
      OBVIOUS
    <3> QED BY <1>2, <2>2, <3>1
  <2> QED BY <1>3, <2>1, <2>2
<1>6. Submitted' = Submitted \cup {q}
  BY <1>5 DEF Submitted
<1>7. DetailOf(wizard)' = DetailOf(wizard)
  BY <1>4 DEF DetailOf
<1>8. RestoreTypeOK'
  BY <1>4, <1>5 DEF RestoreInv, RestoreTypeOK, Wizards
<1>9. TickedIsShown' /\ CurrentIsTheChoice' /\ DetailIsOfTheChoice'
  BY <1>4, <1>5, <1>7 DEF RestoreInv, TickedIsShown, CurrentIsTheChoice, DetailIsOfTheChoice
<1>10. ItemsAreTicked'
  BY <1>5, <1>6 DEF RestoreInv, ItemsAreTicked
<1> QED BY <1>8, <1>9, <1>10 DEF RestoreInv

LEMMA SubmitReplyKeepsInv ==
  ASSUME RestoreInv, NEW q \in posted, SubmitReply(q)
  PROVE  RestoreInv'
<1>0. wizard \in Wizards
  BY DEF RestoreInv, RestoreTypeOK, Wizards
<1>1. /\ posted' = posted \ {q} /\ q.kind \in {"restore", "upload"}
      /\ wizard' = wizard \/ wizard' = [wizard EXCEPT !.saving = FALSE]
  BY DEF SubmitReply
<1>2. Submitted' \subseteq Submitted
  BY <1>1 DEF Submitted
<1>3. /\ wizard' \in Wizards /\ wizard'.detail = wizard.detail /\ wizard'.ticked = wizard.ticked
      /\ wizard'.mode = wizard.mode /\ wizard'.backup = wizard.backup /\ wizard'.failed = wizard.failed
  BY <1>0, <1>1 DEF Wizards
<1>4. DetailOf(wizard)' = DetailOf(wizard)
  BY <1>3 DEF DetailOf
<1>5. RestoreTypeOK'
  BY <1>1, <1>3 DEF RestoreInv, RestoreTypeOK, Wizards
<1>6. TickedIsShown' /\ CurrentIsTheChoice' /\ DetailIsOfTheChoice'
  BY <1>1, <1>3, <1>4 DEF RestoreInv, TickedIsShown, CurrentIsTheChoice, DetailIsOfTheChoice
<1>7. ItemsAreTicked'
  BY <1>2 DEF RestoreInv, ItemsAreTicked
<1> QED BY <1>5, <1>6, <1>7 DEF RestoreInv

-----------------------------------------------------------------------------
LEMMA RestoreNextInv == RestoreInv /\ [RestoreNext]_restoreVars => RestoreInv'
<1> SUFFICES ASSUME RestoreInv, [RestoreNext]_restoreVars PROVE RestoreInv'
  OBVIOUS
<1>0. wizard \in Wizards /\ wizard.ticked \subseteq FilesOf(wizard.detail)
  BY DEF RestoreInv, RestoreTypeOK, Wizards, TickedIsShown
<1>1. ASSUME NEW q \in posted, ListReply(q) \/ DetailReply(q) \/ DetailReplyFails(q) \/ SubmitReply(q)
      PROVE  RestoreInv'
  BY <1>1, ListKeepsInv, DetailKeepsInv, SubmitReplyKeepsInv
<1>2. ASSUME NEW m \in {"backup", "upload"}, SwitchMode(m) PROVE RestoreInv'
  <2> DEFINE next == [wizard EXCEPT !.mode = m, !.step = 1]
  <2>1. /\ next \in Wizards /\ next.detail = wizard.detail /\ next.ticked = wizard.ticked
        /\ next.saving = wizard.saving /\ next.failed = wizard.failed
    <3>1. 1 \in 1 .. 4
      OBVIOUS
    <3> QED BY <1>0, <3>1 DEF Wizards
  <2>2. DetailEffect(next, posted)
    BY <1>2 DEF SwitchMode
  <2> HIDE DEF next
  <2> QED BY <2>1, <2>2, EffectKeepsInv
<1>3. ASSUME NEW b \in Backup, PickBackup(b) PROVE RestoreInv'
  <2>0. PICK device \in BOOLEAN : DetailEffect([wizard EXCEPT !.backup = b, !.targeted = device], posted)
    BY <1>3 DEF PickBackup
  <2> DEFINE next == [wizard EXCEPT !.backup = b, !.targeted = device]
  <2>1. /\ next \in Wizards /\ next.detail = wizard.detail /\ next.ticked = wizard.ticked
        /\ next.saving = wizard.saving /\ next.failed = wizard.failed
    BY <1>0 DEF Wizards
  <2>2. DetailEffect(next, posted)
    BY <2>0
  <2> HIDE DEF next
  <2> QED BY <2>1, <2>2, EffectKeepsInv
<1>4. ASSUME NEW some \in BOOLEAN, PickUploadFiles(some) \/ EditFallback(some) PROVE RestoreInv'
  <2>1. wizard' = [wizard EXCEPT !.files = some] \/ wizard' = [wizard EXCEPT !.fallback = some]
    BY <1>4 DEF PickUploadFiles, EditFallback
  <2>2. posted' = posted
    BY <1>4 DEF PickUploadFiles, EditFallback
  <2> QED BY <1>0, <2>1, <2>2, RestoreKeepsInv DEF Wizards
<1>5. ASSUME NEW step \in 1 .. 4, GoToStep(step) PROVE RestoreInv'
  BY <1>0, <1>5, RestoreKeepsInv DEF GoToStep, Wizards
<1>6. CASE PickDevice
  BY <1>0, <1>6, RestoreKeepsInv DEF PickDevice, Wizards
<1>7. ASSUME NEW ticks, posted' = posted, wizard' = [wizard EXCEPT !.ticked = ticks],
             ticks \subseteq FilesOf(wizard.detail)
      PROVE  RestoreInv'
  <2>1. ticks \subseteq BackupFile
    BY <1>0, <1>7, FilesOfBackups DEF Wizards
  <2> QED BY <1>0, <1>7, <2>1, RestoreKeepsInv DEF Wizards
<1>8. ASSUME NEW file \in BackupFile, ToggleRestoreFile(file) PROVE RestoreInv'
  <2> DEFINE ticks == IF file \in wizard.ticked THEN wizard.ticked \ {file} ELSE wizard.ticked \cup {file}
  <2>1. posted' = posted /\ wizard' = [wizard EXCEPT !.ticked = ticks] /\ file \in FilesOf(wizard.detail)
    BY <1>8 DEF ToggleRestoreFile
  <2>2. ticks \subseteq FilesOf(wizard.detail)
    BY <1>0, <2>1
  <2> HIDE DEF ticks
  <2> QED BY <1>7, <2>1, <2>2
<1>9. ASSUME NEW files \in SUBSET BackupFile, TickFiles(files) PROVE RestoreInv'
  <2>1. posted' = posted /\ wizard' = [wizard EXCEPT !.ticked = files]
    BY <1>9 DEF TickFiles
  <2>2. files \subseteq FilesOf(wizard.detail)
    <3>1. CASE files \in {{}, FilesOf(wizard.detail)}
      BY <3>1
    <3>2. CASE files \notin {{}, FilesOf(wizard.detail)}
      <4>1. PICK g \in {{f \in FilesOf(wizard.detail) : KindOf[f] = k} : k \in FileKind} :
              files \in {wizard.ticked \cup g, wizard.ticked \ g}
        BY <1>9, <3>2 DEF TickFiles
      <4>2. g \subseteq FilesOf(wizard.detail)
        BY <4>1
      <4> QED BY <1>0, <4>1, <4>2
    <3> QED BY <3>1, <3>2
  <2> QED BY <1>7, <2>1, <2>2
<1>10. ASSUME NEW kind \in FileKind, NEW path \in GroupPath, EditGroupPath(kind, path)
       PROVE  RestoreInv'
  BY <1>0, <1>10, RestoreKeepsInv DEF EditGroupPath, Wizards
<1>11. CASE SubmitRestore \/ SubmitUpload
  BY <1>11, SubmitKeepsInv
<1>12. CASE UNCHANGED restoreVars
  BY <1>0, <1>12, RestoreKeepsInv DEF restoreVars
<1> QED
  BY <1>1, <1>2, <1>3, <1>4, <1>5, <1>6, <1>8, <1>9, <1>10, <1>11, <1>12 DEF RestoreNext

LEMMA RestoreInductive == RestoreSpec => []RestoreInv
BY RestoreInitInv, RestoreNextInv, PTL DEF RestoreSpec

LEMMA RestoreInvReviews == RestoreInv => RestoreIsAsReviewed
<1> SUFFICES ASSUME RestoreInv, NEW q \in posted, q.kind = "restore", NEW done \in Restored(q)
             PROVE  /\ \A item \in done : /\ item[1] \in q.ticked \cap FilesOf(q.backup)
                                          /\ item[2] # "" \/ item[1] \in Table
                    /\ done # {} => {item[1] : item \in q.items} = q.ticked
  BY DEF RestoreIsAsReviewed
<1>1. {item[1] : item \in q.items} = q.ticked
  BY DEF RestoreInv, ItemsAreTicked, Submitted
<1>2. CASE Refused(q)
  <2>1. done = {}
    BY <1>2 DEF Restored
  <2> QED BY <2>1
<1>3. CASE ~Refused(q)
  <2>1. done \subseteq q.items
    BY <1>3 DEF Restored, AsFarAsItGoes
  <2>2. \A item \in q.items : item[1] \in FilesOf(q.backup) /\ (item[2] # "" \/ item[1] \in Table)
    BY <1>3 DEF Refused
  <2>3. \A item \in q.items : item[1] \in q.ticked
    BY <1>1
  <2> QED BY <1>1, <2>1, <2>2, <2>3
<1> QED BY <1>2, <1>3

(* Whichever details arrive in whichever order, the one shown in the end is *)
(* that of the backup picked last (the effect of lines 92-145).             *)
THEOREM DetailsAreOfTheChoice == RestoreSpec => []DetailIsOfTheChoice
<1>1. RestoreInv => DetailIsOfTheChoice
  BY DEF RestoreInv
<1> QED BY <1>1, RestoreInductive, PTL

(* Whatever a restore puts on the device, all or a part, was ticked and is  *)
(* of the backup under review, with a place to go; it was told to put all.  *)
THEOREM RestoresAreAsReviewed == RestoreSpec => []RestoreIsAsReviewed
<1> QED BY RestoreInvReviews, RestoreInductive, PTL
=============================================================================
