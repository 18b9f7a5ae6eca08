-------------------------------- MODULE Path --------------------------------
(***************************************************************************)
(* YS_File::fmtPathEx (isaac/tool/ys_file.hpp).  A path is the sequence of *)
(* its parts: "/" (or a backslash), ".", "..", and names; no two of the    *)
(* last three are next to each other.                                      *)
(***************************************************************************)
EXTENDS Naturals, Sequences, SequencesExt

Sep == "/"

(* YS_String::replace(path, "//", "/"), which starts again until none is left. *)
Single(p) ==
  FoldLeft(LAMBDA q, x : IF x = Sep /\ q # <<>> /\ Last(q) = Sep THEN q ELSE Append(q, x), <<>>, p)

(* The components; a leading separator is one of them. *)
vtSub(p) ==
  (IF p # <<>> /\ p[1] = Sep THEN <<Sep>> ELSE <<>>) \o SelectSeq(p, LAMBDA x : x # Sep)

(* Mutant of Resolve: a ".." takes away the root or another "..". *)
ResolveAll(stk) ==
  FoldLeft(LAMBDA s, x : IF x = ".." /\ s # <<>> THEN Front(s) ELSE Append(s, x), <<>>, stk)

(* A ".." takes away the component before it, unless that is ".." or the root.
   The root is looked for in stk, at the index of the top of the stack. *)
Resolve(stk) ==
  FoldLeft(LAMBDA s, x : IF x = ".." /\ s # <<>> /\ Last(s) # ".." /\ stk[Len(s)] # Sep
                         THEN Front(s) ELSE Append(s, x),
           <<>>, stk)

Join(s) ==
  FoldLeft(LAMBDA q, i : q \o (IF i = 1 THEN <<>> ELSE <<Sep>>) \o <<s[i]>>,
           <<>>, [i \in 1..Len(s) |-> i])

fmtPathEx(path) ==
  LET tmp == Single(path)
      sub == vtSub(tmp)
      out == (IF sub[1] = "." THEN <<".", Sep>> ELSE <<>>)
               \o Join(Resolve(SelectSeq(sub, LAMBDA x : x # ".")))
               \o (IF Last(tmp) = Sep THEN <<Sep>> ELSE <<>>)
  IN  IF path = <<>> THEN path ELSE Single(out)

----------------------------------------------------------------------------
(* The reference: where a path leads, walked from the directory cwd. *)
Walk(cwd, path) ==
  FoldLeft(LAMBDA d, x : CASE x \in {Sep, "."} -> d
                           [] x = ".." -> IF d = <<>> THEN d ELSE Front(d)
                           [] OTHER -> Append(d, x),
           IF path # <<>> /\ path[1] = Sep THEN <<>> ELSE cwd, path)

(* A relative path that names nothing but the directory it starts from. *)
Nowhere(path) ==
  LET s == vtSub(Single(path))
  IN  s # <<>> /\ s[1] # "." /\ Resolve(SelectSeq(s, LAMBDA x : x # ".")) = <<>>
=============================================================================
