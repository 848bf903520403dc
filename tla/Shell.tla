------------------------------- MODULE Shell -------------------------------
(***************************************************************************)
(* A session at the shell: the commands that change something              *)
(* (shell/shell.c), the permissions they ask for (security.c), and the     *)
(* text editor (shell/editor.c).  While the editor is on, it gets the      *)
(* keys, and no command runs.  Each command and each key is one step, but  *)
(* for the copying that snap-create starts (see Fs).                       *)
(***************************************************************************)
EXTENDS FsCwd

CONSTANTS
    EditorMax,      \* EDITOR_BUF_SIZE
    PathOf          \* How a path is parsed that the editor was given as a name.

ASSUME ShellAssumption ==
    /\ EditorMax \in Nat \ {0}
    /\ 1 .. (EditorMax - 1) \subseteq TextLen
    /\ PathOf \in [RawName -> Path]

VARIABLES
    current_user,
    editor          \* editor_active, editor_name and editor_len.

session == <<current_user, editor>>
shell_vars == <<vars, session>>

EditorOff == [active |-> FALSE, name |-> RootName, len |-> 0]

perms == [root |-> {"read", "write", "exec", "snap", "admin"}, guest |-> {"read"}]
users == DOMAIN perms

\* The filesystem's types with the session's: the current directory and the
\* roots are directories, and the editor's text leaves a byte for its end.
ShellTypeOK ==
    /\ TypeOK /\ DirsAreDirs
    /\ current_user \in users
    /\ editor \in [active : BOOLEAN, name : RawName \cup {RootName}, len : 0 .. (EditorMax - 1)]

\* sec_init logs root in.
ShellInit ==
    /\ Init
    /\ current_user = "root"
    /\ editor = EditorOff

-----------------------------------------------------------------------------
(* Commands *)

\* shell_keypress with the Enter that ends a command line.
Prompt == Quiet /\ ~editor.active

\* A mutant of Permitted: any user may do anything.
PermittedAlways(required, op) == op

\* sec_require_perm: without the permission a command does nothing.
Permitted(required, op) ==
    IF required \in perms[current_user] THEN op ELSE UNCHANGED vars

\* A command without its arguments prints how it is used.
Given == Path \ {[abs |-> FALSE, comps |-> <<>>]}

mkdir == \E p \in Path : Permitted("write", fs_mkdir(p))
touch == \E p \in Path : fs_touch(p)
cat   == \E p \in Path : Permitted("read", fs_read(p))
write == \E p \in Given, len \in TextLen : Permitted("write", fs_write(p, len))
rm    == \E p \in Given : Permitted("write", fs_unlink(p))
rmdir == \E p \in Given : Permitted("write", fs_rmdir(p))
mv    == \E p, q \in Given : Permitted("write", fs_rename(p, q))
cp    == \E p, q \in Given : Permitted("read", fs_copy(p, q))

snap_create  == \E s \in SnapName : Permitted("snap", fs_snap_create(s))
snap_restore == \E s \in SnapName : Permitted("snap", fs_snap_restore(s))

\* A mutant of CdUpTarget: the last two segments go.
CdUpTwice == SubSeq(fs_getcwd, 1, Len(fs_getcwd) - 2)

\* cmd_cd(".."): the path of the current directory without its last segment.
CdUpTarget == SubSeq(fs_getcwd, 1, Len(fs_getcwd) - 1)

\* "cd.." and "cd ..".  A comment (shell.c:310) wants the second kept out of
\* here, but the code lets both in.  A ".." inside a longer path is a name like
\* any other.
cmd_cd_up == fs_chdir([abs |-> TRUE, comps |-> CdUpTarget])

cmd_cd(p) == fs_chdir(p)

cmd_login(user) ==
    /\ current_user' = user
    /\ UNCHANGED <<vars, editor>>

-----------------------------------------------------------------------------
(* The editor *)

\* What the file holds already is not loaded.
editor_start(nm) ==
    /\ editor' = [active |-> TRUE, name |-> nm, len |-> 0]
    /\ UNCHANGED <<vars, current_user>>

\* A mutant of EditorType: no room is kept for the terminator.
EditorTypeFull ==
    /\ editor.active
    /\ editor.len < EditorMax
    /\ editor' = [editor EXCEPT !.len = @ + 1]
    /\ UNCHANGED <<vars, current_user>>

EditorType ==
    /\ editor.active
    /\ editor.len < EditorMax - 1
    /\ editor' = [editor EXCEPT !.len = @ + 1]
    /\ UNCHANGED <<vars, current_user>>

EditorErase ==
    /\ editor.active
    /\ editor.len > 0
    /\ editor' = [editor EXCEPT !.len = @ - 1]
    /\ UNCHANGED <<vars, current_user>>

\* A mutant of editor_save_file: the terminator goes over the last character.
SaveShort ==
    IF editor.len = 0 THEN fs_touch(PathOf[editor.name])
    ELSE fs_write_cwd(editor.name, editor.len - 1)

\* An empty text: the name is parsed as a path, and an existing file is left
\* alone.  Otherwise the name is taken literally, in the current directory.
editor_save_file ==
    IF editor.len = 0 THEN fs_touch(PathOf[editor.name])
    ELSE fs_write_cwd(editor.name, editor.len)

\* ESC: saved or not, the editor ends.
EditorEscape ==
    /\ editor.active
    /\ editor_save_file
    /\ editor' = EditorOff
    /\ UNCHANGED current_user

-----------------------------------------------------------------------------
ShellNext ==
    \/ /\ Prompt
       /\ \/ mkdir \/ touch \/ cat \/ write \/ rm \/ rmdir \/ mv \/ cp
          \/ snap_create \/ snap_restore
          \/ cmd_cd_up \/ \E p \in Given : cmd_cd(p)
       /\ UNCHANGED session
    \/ /\ Prompt
       /\ \/ \E u \in users : cmd_login(u)
          \/ \E nm \in RawName : editor_start(nm)
    \/ EditorType \/ EditorErase \/ EditorEscape
    \/ (fs_clone_tree \/ SnapCreateEnd) /\ UNCHANGED session

ShellSpec == ShellInit /\ [][ShellNext]_shell_vars

-----------------------------------------------------------------------------
(* Properties *)

\* cd .. goes up, though it goes by the text of a path: pwd shows what it
\* showed before but for the last name, also when that text was cut, or
\* nothing changes.  It leads to the directory that lists the current one
\* where there is one and the path to it is not cut.
CdUpDropsLastName ==
    [][Prompt /\ cmd_cd_up =>
          /\ \/ ret' = Ok /\ fs_getcwd' = SubSeq(fs_getcwd, 1, Len(fs_getcwd) - 1)
             \/ ret' # Ok /\ fs_cwd' = fs_cwd
          /\ \A x \in Descents(fs_root) :
                x.node = fs_cwd /\ fs_cwd # fs_root /\ Len(x.path) <= CwdMax =>
                    ret' = Ok /\ fs_cwd' = parent[fs_cwd]]_shell_vars

\* Who may only read takes nothing away and makes no directory: every path
\* stays what it is (a file's contents aside), and the saved trees stay too.
ReadersOnlyAdd ==
    [][current_user = "guest" =>
          /\ fs_root' = fs_root /\ snaps' = snaps
          /\ Descents(fs_root) \subseteq Descents(fs_root)'
          /\ \A x \in Descents(fs_root)' \ Descents(fs_root) : ~is_dir'[x.node]]_shell_vars

\* A text that was typed and saved without an error is in the current
\* directory under the editor's name, all of it; and nothing else changed.
SavedAsTyped ==
    [][editor.active /\ ~editor'.active /\ editor.len > 0 /\ ret' = Ok =>
          \E n \in Listed(fs_cwd)' :
              /\ name'[n] = editor.name
              /\ data'[n] = Crypt(Plain(editor.len))
              /\ \A m \in nodes \ {n} : data'[m] = data[m]]_shell_vars

=============================================================================
