------------------------------- MODULE FsRoot -------------------------------
(***************************************************************************)
(* gemini_fs_path() of fs.c: what gemini_fs_resolve() comes to, put behind *)
(* the root of a cgi handler.                                              *)
(***************************************************************************)
EXTENDS FsPath

CONSTANT Roots  \* what fs->root may be

ASSUME RootAssumption == Roots \subseteq Seq(Chars)

(* Mutant: only one slash is taken off the root. *)
TrimmedOnce(root) == IF root # <<>> /\ Last(root) = "/" THEN Front(root) ELSE root

Trimmed(root) == SubSeq(root, 1, Max({0} \cup {k \in 1..Len(root) : root[k] # "/"}))

FullPath(root) == Trimmed(root) \o <<"/">> \o path

(* The memory that malloc() was asked for, before the root was trimmed. *)
Allocated(root) == Len(root) + 1 + Len(path) + 1

(* The program that a cgi handler executes lies below its root, whatever   *)
(* the root ends with and the request consists of: up to the joint the     *)
(* path is the root but for slashes at its end, there is one slash between *)
(* the two, and what is behind it never leads above the joint; path and    *)
(* NUL fit the memory.                                                     *)
JoinsBelowRoot ==
  phase = "resolved" =>
    \A root \in Roots :
      LET joint == Len(FullPath(root)) - Len(path)
      IN /\ \A k \in 1..Len(root) : IF k < joint THEN FullPath(root)[k] = root[k]
                                                  ELSE root[k] = "/"
         /\ joint = 1 \/ FullPath(root)[joint - 1] # "/"
         /\ path # <<>> => FullPath(root)[joint + 1] # "/"
         /\ DescendsFrom(FullPath(root), joint)
         /\ Len(FullPath(root)) < Allocated(root)
=============================================================================
