---------------------------- MODULE MCNamespace -----------------------------
(***************************************************************************)
(* The calls on names that the instances of Namespace may make.            *)
(***************************************************************************)
EXTENDS Namespace

Call(o, q, t, l) == [op |-> o, path |-> q, type |-> t, to |-> l]
PassCalls ==
  {Call("open", <<"/", "d", "a">>, "", <<>>),
   Call("create", <<"/", "d", "a">>, "file", <<>>),
   Call("create", <<"/", "d">>, "dir", <<>>),
   Call("create", <<"b">>, "device", <<>>),
   Call("link", <<"/", "a">>, "", <<"d", "a">>),
   Call("unlink", <<"/", "d", "a">>, "", <<>>),
   Call("unlink", <<"/", "d">>, "", <<>>),
   Call("unlink", <<"/", ".">>, "", <<>>),
   Call("chdir", <<"b">>, "", <<>>),
   Call("link", <<"/", "d">>, "", <<"/", "d", "a">>),
   Call("chdir", <<"d">>, "", <<>>)}

(* Two files at the root, made and removed; the failing call only looks at *)
(* the root.                                                               *)
LeakCalls ==
  {Call("create", <<"a">>, "file", <<>>),
   Call("create", <<"b">>, "device", <<>>),
   Call("unlink", <<"a">>, "", <<>>),
   Call("unlink", <<"b">>, "", <<>>),
   Call("unlink", <<"/", ".">>, "", <<>>)}
=============================================================================
