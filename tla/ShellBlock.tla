------------------------------- MODULE ShellBlock -------------------------------
(***************************************************************************)
(* The shell integration (scripts/install-shell-integration.py and         *)
(* uninstall-shell-integration.py): a marked block in ~/.zshenv, a line in *)
(* Kaku's loader, and a patch of Kaku's interactive file that is undone    *)
(* from a backup.  With them repairShellMarkers of doctor-auto-healer.ts,  *)
(* which keeps a block of its own in the same .zshenv, with other markers. *)
(*                                                                         *)
(* A line is one of the user's, blank, a marker (start and end, or the     *)
(* healer's BEGIN and END) or the managed line.  The                       *)
(* interactive file is plain (nothing to patch), edited, or a version n of *)
(* Kaku's, as it was (kaku) or patched; digests are compared as contents.  *)
(* A write or copy that is cut leaves an empty file or a first half, one   *)
(* of each; of a manifest what is left cannot be read, which is as if it   *)
(* were not there.  Of the scripts' own files it is kept whether they are  *)
(* there; a wrapper and its alias are one.  What the loader's lines say is *)
(* left out, and so are copies of .zshenv that are cut, for nothing reads  *)
(* them.  Bounds: MaxShellOps, MaxEdits, MaxKaku.                          *)
(***************************************************************************)
EXTENDS Subsequence, Functions, FiniteSetsExt

CONSTANTS
  Files,       \* what .zshenv may hold before
  NoBackup,
  MaxShellOps, \* bound: installs, uninstalls and repairs
  MaxEdits,    \* bound: edits of the user
  MaxKaku      \* bound: versions of Kaku's file

Line == {"user1", "user2", "blank", "start", "managed", "end", "BEGIN", "note", "END", "source"}

\* What is between the markers is what the scripts have written there.
Intact(lines) ==
  \A i \in DOMAIN lines :
    /\ lines[i] = "end" => i > 1 /\ lines[i - 1] = "managed"
    /\ lines[i] = "managed" => i > 1 /\ lines[i - 1] = "start"

ASSUME ShellAssumption ==
  /\ \A lines \in Files : lines \in Seq(Line) /\ Intact(lines)
  /\ NoBackup \notin [is : {"kaku", "patched", "half", "halfpatched", "empty"}, n : Nat]
  /\ MaxShellOps \in Nat /\ MaxEdits \in Nat /\ MaxKaku \in Nat

VARIABLES
  zshenv,      \* the lines of ~/.zshenv
  zbackups,    \* backups/*/zshenv.backup
  loader,      \* the lines of kaku-shell-loader.zsh
  interactive, \* kaku-harness-interactive.zsh
  kept,        \* backups/*/kaku-harness-interactive.zsh.backup
  own,         \* env.zsh, the Kaku plugin and the wrappers: "absent" or "managed"
  manifest,    \* install-manifest.json: the backup and the patched content
  wrappers,    \* MANAGE_WRAPPERS: the package has its own and leaves these out
  job,         \* the script under way, its step and what it has computed
  said,        \* what the last script did: "installed", "removed", "raised" or nothing
  mine,        \* history: the user's lines of .zshenv, as the user left them
  theirs,      \* history: the interactive file as the user or Kaku left it
  lapse,       \* history: what the scripts do not guard against, see KillShell and NewKaku
  shellOps, edits

shVars == <<zshenv, zbackups, loader, interactive, kept, own, manifest, wrappers, job, said, mine, theirs, lapse, shellOps, edits>>

kaku(n) == [is |-> "kaku", n |-> n]
patched(n) == [is |-> "patched", n |-> n]
half(n) == [is |-> "half", n |-> n]
halfpatched(n) == [is |-> "halfpatched", n |-> n]
other(is) == [is |-> is, n |-> 0]

\* What is left of a text when its write is cut, and such texts.
CutOf(text) ==
  {other("empty")} \cup {half(n) : n \in {n \in {text.n} : text.is = "kaku"}}
                   \cup {halfpatched(n) : n \in {n \in {text.n} : text.is = "patched"}}
Damaged(text) == text.is \in {"empty", "half", "halfpatched"}

\* Has it the prefix of Kaku's file?  And curate_interactive.
Prefixed(text) == text.is \in {"kaku", "half"}
Curated(text) ==
  CASE text.is = "kaku" -> patched(text.n) [] text.is = "half" -> halfpatched(text.n) [] OTHER -> text

NoManifest == [backup |-> NoBackup, patched |-> NoBackup]
NoJob == [kind |-> "none", step |-> "none", lines |-> <<>>, found |-> NoManifest]

OwnFiles == <<"env", "plugin", "codex-harness", "agy">> \* in the order they are written

ShInit ==
  /\ zshenv \in Files /\ mine = zshenv /\ zbackups = {}
  /\ loader \in {<<>>, <<"user1">>}
  /\ interactive \in {kaku(1), other("plain")} /\ theirs = interactive
  /\ kept = {} /\ manifest = NoManifest
  /\ own = [f \in Range(OwnFiles) |-> "absent"] /\ wrappers \in BOOLEAN
  /\ job = NoJob /\ said = "nothing" /\ lapse = {}
  /\ shellOps = 0 /\ edits = 0

-----------------------------------------------------------------------------
UserLines(lines) == Within(lines, {"user1", "user2"})

\* Is every start marker followed by its end marker, before another?
WellFormed(lines) ==
  LET marks == Within(lines, {"start", "end"})
  IN  /\ Len(marks) % 2 = 0
      /\ \A i \in 1..Len(marks) : marks[i] = IF i % 2 = 1 THEN "start" ELSE "end"

\* The lines outside the markers, in their order.
Outside(lines) ==
  LET open(i) == \E j \in 1..i : lines[j] = "start" /\ \A k \in j..i : lines[k] # "end"
  IN  Selected(lines, {i \in DOMAIN lines : ~open(i) /\ lines[i] # "end"})

Text(lines) == {i \in DOMAIN lines : lines[i] # "blank"}

\* rstrip, and trim.
Stripped(lines) == IF Text(lines) = {} THEN <<>> ELSE SubSeq(lines, 1, Max(Text(lines)))
Trimmed(lines) == IF Text(lines) = {} THEN <<>> ELSE SubSeq(lines, Min(Text(lines)), Max(Text(lines)))

Block == <<"start", "managed", "end">>

\* Mutant: an end marker that is missing is not noticed.
MutRenderable(lines) == TRUE

Renderable(lines) == WellFormed(lines)

\* render_managed_block and strip_managed_block.
Render(lines) == LET text == Stripped(Outside(lines))
                 IN  (IF text = <<>> THEN <<>> ELSE Append(text, "blank")) \o Block

WithoutSource(lines) == Stripped(Selected(lines, {i \in DOMAIN lines : lines[i] # "source"}))

\* repairShellMarkers: what is between the first BEGIN and the first END goes, or
\* all that follows the first BEGIN when no END or an earlier one is there.
Healed(lines) ==
  LET at(m) == {i \in DOMAIN lines : lines[i] = m}
      first(m) == IF at(m) = {} THEN Len(lines) + 1 ELSE Min(at(m))
      rest == IF at("END") # {} /\ first("END") > first("BEGIN") THEN SubSeq(lines, first("END") + 1, Len(lines)) ELSE <<>>
      text == Trimmed(IF at("BEGIN") = {} THEN lines ELSE SubSeq(lines, 1, first("BEGIN") - 1) \o rest)
  IN  (IF text = <<>> THEN <<>> ELSE Append(text, "blank")) \o <<"BEGIN", "note", "END">>

Step(s) == job' = [job EXCEPT !.step = s]
Doing(kind, s) == job.kind = kind /\ job.step = s
Texts == <<zshenv, zbackups, loader, interactive, kept, own, manifest>>
Past == <<mine, theirs, lapse, shellOps, edits, wrappers>>

\* Both scripts look at the markers before they change anything.
BeginShell(kind) ==
  /\ job = NoJob /\ shellOps < MaxShellOps
  /\ shellOps' = shellOps + 1
  /\ IF Renderable(zshenv)
       THEN /\ job' = [NoJob EXCEPT !.kind = kind,
                                    !.step = IF kind = "install" THEN "own" ELSE "zshenv",
                                    !.lines = IF kind = "install" THEN Render(zshenv) ELSE Stripped(Outside(zshenv))]
            /\ said' = "nothing"
       ELSE said' = "raised" /\ UNCHANGED job
  /\ UNCHANGED <<Texts, mine, theirs, lapse, edits, wrappers>>

\* The first n of its files are written, over whatever was there.
Installed(n) ==
  LET todo == IF wrappers THEN Len(OwnFiles) ELSE 2
  IN  [f \in Range(OwnFiles) |-> IF \E k \in 1..n : k <= todo /\ OwnFiles[k] = f THEN "managed" ELSE own[f]]

WriteOwn ==
  /\ Doing("install", "own") /\ Step("zshenv")
  /\ own' = Installed(Len(OwnFiles))
  /\ UNCHANGED <<zshenv, zbackups, loader, interactive, kept, manifest, said, Past>>

\* Of the wrappers those of agy stay.
RemoveOwn ==
  /\ Doing("uninstall", "own") /\ Step("manifest")
  /\ own' = [f \in Range(OwnFiles) |->
               IF f = "env" \/ (wrappers /\ f = "codex-harness") THEN "absent" ELSE own[f]]
  /\ UNCHANGED <<zshenv, zbackups, loader, interactive, kept, manifest, said, Past>>

\* The healer begins without such a look.
BeginHeal ==
  /\ job = NoJob /\ shellOps < MaxShellOps
  /\ shellOps' = shellOps + 1 /\ said' = "nothing"
  /\ job' = [NoJob EXCEPT !.kind = "heal", !.step = "zshenv", !.lines = Healed(zshenv)]
  /\ UNCHANGED <<Texts, mine, theirs, lapse, edits, wrappers>>

\* The backup is made first, by all but uninstall.
BackedUp == IF job.kind = "uninstall" THEN zbackups ELSE zbackups \cup {zshenv}

WriteZshenv ==
  /\ job.step = "zshenv"
  /\ IF job.kind = "heal" THEN job' = NoJob ELSE Step("loader")
  /\ zshenv' = job.lines /\ zbackups' = BackedUp
  /\ lapse' = lapse \cup {l \in {"cut"} : job.kind = "heal" /\ UserLines(job.lines) # UserLines(zshenv)}
  /\ UNCHANGED <<loader, interactive, kept, own, manifest, said, mine, theirs, shellOps, edits, wrappers>>

WriteLoader ==
  /\ job.step = "loader" /\ Step("interactive")
  /\ loader' = IF job.kind = "install" THEN Append(WithoutSource(loader), "source") ELSE WithoutSource(loader)
  /\ UNCHANGED <<zshenv, zbackups, interactive, kept, own, manifest, said, Past>>

\* Mutant: a file that is patched already is not looked up among the backups.
MutKnown(text) == manifest

\* What the manifest says, when its backup is still there; otherwise a backup
\* of which the present content is the patched form.
Known(text) ==
  LET matches == {b \in kept : Curated(b) = text}
  IN  IF manifest.backup \in kept \/ matches = {} THEN manifest
      ELSE [backup |-> CHOOSE b \in matches : TRUE, patched |-> text]

\* Kaku's file is patched when it has the prefix; a backup is made unless one
\* is known.
NewBackup == IF Known(interactive).backup = NoBackup THEN {interactive} ELSE {}

PatchInteractive ==
  /\ Doing("install", "interactive")
  /\ LET known == Known(interactive)
         new == [backup |-> IF known.backup = NoBackup THEN interactive ELSE known.backup,
                 patched |-> Curated(interactive)]
     IN  IF Prefixed(interactive)
           THEN /\ kept' = kept \cup NewBackup /\ interactive' = Curated(interactive)
                /\ job' = [job EXCEPT !.step = "manifest", !.found = new]
           ELSE /\ job' = [job EXCEPT !.step = "manifest", !.found = known]
                /\ UNCHANGED <<interactive, kept>>
  /\ UNCHANGED <<zshenv, zbackups, loader, own, manifest, said, Past>>

\* The backup is put back when the file is still what the patch made.
Restorable == manifest.backup \in kept /\ manifest.patched = interactive

RestoreInteractive ==
  /\ Doing("uninstall", "interactive") /\ Step("own")
  /\ interactive' = IF Restorable THEN manifest.backup ELSE interactive
  /\ UNCHANGED <<zshenv, zbackups, loader, kept, own, manifest, said, Past>>

\* The manifest is written; or it goes, with the Kaku plugin.
EndShell ==
  /\ job.step = "manifest"
  /\ own' = IF job.kind = "install" THEN own ELSE [own EXCEPT !["plugin"] = "absent"]
  /\ manifest' = IF job.kind = "install" THEN job.found ELSE NoManifest
  /\ said' = IF job.kind = "install" THEN "installed" ELSE "removed"
  /\ lapse' = lapse \ {l \in {"unrecorded"} : /\ job.kind = "install"
                                             /\ (job.found.backup = NoBackup \/ job.found.patched = interactive)}
  /\ job' = NoJob
  /\ UNCHANGED <<zshenv, zbackups, loader, interactive, kept, mine, theirs, shellOps, edits, wrappers>>

-----------------------------------------------------------------------------
\* The script is killed, between two writes, or in one: write_text and copy2 truncate
\* first.  After the patch the manifest does not know of it yet.
KillBetween ==
  /\ own' \in IF Doing("install", "own") THEN {Installed(n) : n \in 0..Len(OwnFiles)} ELSE {own}
  /\ lapse' = lapse \cup {l \in {"unrecorded"} : Doing("install", "manifest") /\ job.found # manifest}
  /\ UNCHANGED <<zshenv, zbackups, loader, interactive, kept, manifest>>

CutZshenv ==
  /\ job.step = "zshenv"
  /\ \E n \in 0..Len(job.lines) - 1 : zshenv' = SubSeq(job.lines, 1, n)
  /\ zbackups' = BackedUp
  /\ lapse' = lapse \cup {IF job.kind = "uninstall" THEN "lost" ELSE "cut"}
  /\ UNCHANGED <<loader, interactive, kept, own, manifest>>

CutLoader ==
  /\ job.step = "loader"
  /\ \E n \in 0..Len(WithoutSource(loader)) : loader' = SubSeq(WithoutSource(loader), 1, n)
  /\ UNCHANGED <<zshenv, zbackups, interactive, kept, own, manifest, lapse>>

\* The backup is cut; or it is made, and the write of the patch is cut or not begun.
CutPatch ==
  /\ Doing("install", "interactive") /\ Prefixed(interactive)
  /\ \/ /\ NewBackup # {} /\ UNCHANGED interactive
        /\ \E c \in CutOf(interactive) \cup NewBackup : kept' = kept \cup {c}
     \/ /\ kept' = kept \cup NewBackup
        /\ interactive' \in CutOf(Curated(interactive))
  /\ UNCHANGED <<zshenv, zbackups, loader, own, manifest, lapse>>

CutRestore ==
  /\ Doing("uninstall", "interactive") /\ Restorable
  /\ interactive' \in CutOf(manifest.backup)
  /\ UNCHANGED <<zshenv, zbackups, loader, kept, own, manifest, lapse>>

CutManifest ==
  /\ Doing("install", "manifest")
  /\ manifest' = NoManifest
  /\ lapse' = lapse \cup {l \in {"unrecorded"} : job.found # NoManifest}
  /\ UNCHANGED <<zshenv, zbackups, loader, interactive, kept, own>>

KillShell ==
  /\ job # NoJob /\ job' = NoJob /\ said' = "nothing"
  /\ \/ KillBetween \/ CutZshenv \/ CutLoader
     \/ CutPatch \/ CutRestore \/ CutManifest
  /\ UNCHANGED <<mine, theirs, shellOps, edits, wrappers>>

\* The user adds a line to .zshenv, until it is cut, or edits the interactive file.
Edit ==
  /\ job = NoJob /\ edits < MaxEdits
  /\ edits' = edits + 1 /\ said' = "nothing"
  /\ \/ /\ {"cut", "lost"} \cap lapse = {}
        /\ \E l \in {"user2", "blank", "start", "BEGIN"} :
             zshenv' = Append(zshenv, l) /\ mine' = Append(mine, l) /\ UNCHANGED <<interactive, theirs>>
     \/ interactive' = other("edited") /\ theirs' = interactive' /\ UNCHANGED <<zshenv, mine>>
  /\ UNCHANGED <<zbackups, loader, kept, own, manifest, wrappers, job, lapse, shellOps>>

\* Kaku replaces its file by a newer one.  A backup of the one before is known
\* then, and no other is made.
NewKaku ==
  /\ job = NoJob /\ theirs.is = "kaku" /\ theirs.n < MaxKaku
  /\ interactive' = kaku(theirs.n + 1) /\ theirs' = interactive' /\ said' = "nothing"
  /\ lapse' = IF manifest.backup = NoBackup THEN lapse ELSE lapse \cup {"replaced"}
  /\ UNCHANGED <<zshenv, zbackups, loader, kept, own, manifest, wrappers, job, mine, shellOps, edits>>

ShNext ==
  \/ \E kind \in {"install", "uninstall"} : BeginShell(kind)
  \/ WriteOwn \/ RemoveOwn
  \/ BeginHeal \/ WriteZshenv \/ WriteLoader \/ PatchInteractive \/ RestoreInteractive \/ EndShell
  \/ KillShell \/ Edit \/ NewKaku

ShSpec == ShInit /\ [][ShNext]_shVars
-----------------------------------------------------------------------------
\* The user's lines of .zshenv are never lost or reordered, in whatever order the
\* scripts and the healer are run, fail or are killed.  When a write of install or
\* of the healer is cut, or the healer drops what follows an unclosed BEGIN, they
\* are in a backup; only a cut write of uninstall loses them.
ZshenvKept ==
  LET same(lines) == UserLines(lines) = UserLines(mine)
  IN  same(zshenv) \/ ("cut" \in lapse /\ \E old \in zbackups : same(old)) \/ "lost" \in lapse

\* After an uninstall nothing of the integration is in the files, and the
\* interactive file is as the user or Kaku left it, through repeated installs and
\* writes that are cut anywhere, unless Kaku replaced it in between.  There are two
\* exceptions, and in both a backup has what was there: a cut write of that file
\* itself, whose rest the scripts take for the user's; and an install that was killed
\* between the patch and the end of the manifest, with none since that recorded it.
ShellRestored ==
  said = "removed" =>
    /\ ~\E i \in DOMAIN zshenv : zshenv[i] \in {"start", "end", "managed"}
    /\ ~\E i \in DOMAIN loader : loader[i] = "source"
    /\ own["env"] = "absent" /\ own["plugin"] = "absent"
    /\ \/ "replaced" \in lapse \/ interactive = theirs
       \/ theirs \in kept /\ (Damaged(interactive) \/ ("unrecorded" \in lapse /\ interactive = Curated(theirs)))
=============================================================================
