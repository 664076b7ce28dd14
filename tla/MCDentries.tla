----------------------------- MODULE MCDentries -----------------------------
(* Trees and calls for Dentries. *)
EXTENDS Dentries

Entry(dir, parent, name, kids, worm) ==
    [Blank EXCEPT !.k = "used", !.dir = dir, !.parent = parent, !.name = name, !.handles = 1,
                  !.child = [n \in Names |-> IF n \in DOMAIN kids THEN kids[n] ELSE None], !.worm = worm]

\* /a, /a/a and /b; everything is a directory but perhaps /a/a
Tree(wb, dir, wf) ==
    (1 :> Entry(TRUE, None, None, [a |-> 2, b |-> 3], "no") @@ 2 :> Entry(TRUE, 1, "a", [a |-> 4], "no") @@
     3 :> Entry(TRUE, 1, "b", << >>, wb) @@ 4 :> Entry(dir, 2, "a", << >>, wf) @@ 5 :> Blank)

Req(op, path, name, to, toname) == [op |-> op, path |-> path, name |-> name, to |-> to, toname |-> toname, dir |-> FALSE]
Call0(op) == Req(op, << >>, "a", << >>, "a")
Unlink(path) == Req("unlink", path, "a", << >>, "a")
Open(path) == Req("open", path, "a", << >>, "a")
Create(path, name, dir) == [Req("create", path, name, << >>, "a") EXCEPT !.dir = dir]
Rename(path, name, to, toname) == Req("rename", path, name, to, toname)

Files == {Call0("close"), Call0("readdir"), Call0("sync"), Open(<<"a", "a">>), Open(<<"b">>), Unlink(<<"a", "a">>),
          Create(<<"b">>, "a", FALSE), Create(<<"a">>, "a", FALSE), Rename(<<"a">>, "a", <<"b">>, "a")}
Moves == {Unlink(<<"a", "a">>), Unlink(<<"b">>), Unlink(<<"a">>), Create(<<"b">>, "a", TRUE), Open(<<"b", "a">>), Call0("close"),
          Rename(<<"a">>, "a", <<"b">>, "a"), Rename(<< >>, "b", <<"a">>, "a"), Rename(<< >>, "a", <<"b">>, "b"),
          Rename(<< >>, "a", <<"a">>, "b"), Rename(<<"a">>, "a", << >>, "a"), Rename(<<"a">>, "b", << >>, "b"),
          Rename(<<"a">>, "a", <<"a">>, "a"), Rename(<<"a">>, "a", << >>, "b")}
Protected == {Call0("sync"), Create(<<"b">>, "a", FALSE), Create(<<"a", "a">>, "b", FALSE), Open(<<"a", "a", "b">>), Unlink(<<"a", "a", "b">>),
              Unlink(<<"a", "a">>), Rename(<<"a", "a">>, "b", << >>, "c"), Rename(<<"a", "a">>, "b", <<"a", "a">>, "c"),
              Rename(<<"a">>, "a", << >>, "c"), Rename(<<"a">>, "a", << >>, "b"), Rename(<< >>, "a", << >>, "b"), Rename(<< >>, "a", << >>, "c")}

SitesAll == {[tree |-> Tree("no", FALSE, "no"), requests |-> Files, calls |-> 3],
             [tree |-> Tree("no", FALSE, "no"), requests |-> Moves, calls |-> 3],
             [tree |-> Tree("immutable", TRUE, "appendonly"), requests |-> Protected, calls |-> 2]}
=============================================================================
