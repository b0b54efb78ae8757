----------------------------- MODULE MCStepScp -----------------------------
(* Small trees and what is copied of them, for the runs on StepScp. *)
EXTENDS StepScp

d == "d"
e == "e"
f == "f"
g == "g"
n == "n"
Root == <<>> :> "dir"
Folder == Root @@ (<<d>> :> "dir")
Nested == Folder @@ (<<d, f>> :> "file") @@ (<<d, e>> :> "dir") @@ (<<d, e, f>> :> "file")
Linked == Nested @@ (<<d, n>> :> "link")
Wide == Folder @@ (<<d, e>> :> "file") @@ (<<d, f>> :> "file") @@ (<<d, g>> :> "file")
Deep == Nested @@ (<<d, e, e>> :> "dir") @@ (<<d, e, e, f>> :> "file")

World(up, rec, l, lp, r, rp) ==
    [uploading |-> up, recursive |-> rec, local |-> l, lpath |-> lp, remote |-> r, rpath |-> rp]
Up(rec, l, r) == World(TRUE, rec, l, <<d>>, r, <<n>>)
Down(rec, l, r) == World(FALSE, rec, l, <<n>>, r, <<d>>)
Taken(k) == Root @@ (<<n>> :> k)
MCWorlds ==
    { Up(TRUE, Linked, Root), Up(TRUE, Linked, Taken("file")), Up(TRUE, Deep, Taken("dir")),
      Up(TRUE, Wide, Root), Up(FALSE, Nested, Root), Up(TRUE, Root @@ (<<d>> :> "file"), Root),
      Up(FALSE, Root @@ (<<d>> :> "file"), Taken("dir")), Up(FALSE, Root, Root),
      Down(TRUE, Root, Linked), Down(TRUE, Taken("dir"), Nested), Down(TRUE, Taken("file"), Nested),
      Down(TRUE, Root, Wide), Down(TRUE, Root, Deep), Down(TRUE, Root, Root),
      Down(FALSE, Taken("file"), Root @@ (<<d>> :> "link")), Down(FALSE, Root, Nested),
      Down(FALSE, Root, Root) }
=============================================================================
