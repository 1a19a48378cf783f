------------------------------ MODULE MCFiles ------------------------------
(***************************************************************************)
(* Inodes, the contents of files and the buffer cache for TLC: one of      *)
(* them, chosen in Init, moves in a behaviour; the others stay in their    *)
(* initial state.                                                          *)
(***************************************************************************)
EXTENDS Inode, Content, Bio, TLC

CONSTANTS p1, p2

VARIABLE part

fileVars == <<inodeVars, contentVars, bioVars, part>>

C(op, path, arg) == [op |-> op, path |-> path, arg |-> arg]
MakeFile == C("create", <<"a">>, "O_RDWR")
Unlink == C("unlink", <<"a">>, "")
Mkdir == C("mkdir", <<"/", "d">>, "")
Rmdir == C("unlink", <<"/", "d">>, "")
Chdir == C("chdir", <<"/", "d">>, "")
MakeLink == C("link", <<"a">>, <<"/", "d">>)

OpenD == C("open", <<"/", "d">>, "O_RDWR")

(* A file with two names; a directory; a name that may be either. *)
ProgramsDef ==
  {p1 :> {MakeFile, Unlink, MakeLink} @@
   p2 :> {C("mknod", <<"a">>, ""), Unlink},
   p1 :> {Mkdir, Rmdir} @@
   p2 :> {MakeFile, Unlink, Chdir, C("exec", <<"a">>, ""), C("unlink", <<"/">>, "")},
   p1 :> {MakeFile, Mkdir, Rmdir} @@
   p2 :> {MakeLink, Chdir, OpenD, C("link", <<"/", "d">>, <<"/", "x", "y">>)}}

UsesDef == {<<1, 1, 1>>, <<2, 1, 1>>, <<2, 2, 2>>, <<2, 2, 1>>}

\* An indirect block is held while the bitmap is read (bmap, balloc).
NestedDef == {<<1, 2>>}
BioSymmetry == Permutations(BioProc)

FilesInit ==
  /\ part \in {"inode", "content", "bio"}
  /\ InodeInit /\ ContentInit /\ BioInit
  /\ part # "bio" => driver = "ide"
  /\ part # "inode" => calls = CHOOSE c \in Programs : TRUE

InodeMoves == part = "inode" /\ InodeNext /\ UNCHANGED <<contentVars, bioVars, part>>
ContentMoves == part = "content" /\ ContentNext /\ UNCHANGED <<inodeVars, bioVars, part>>
BioMoves == part = "bio" /\ BioNext /\ UNCHANGED <<inodeVars, contentVars, part>>

FilesSpec == FilesInit /\ [][InodeMoves \/ ContentMoves \/ BioMoves]_fileVars
=============================================================================
