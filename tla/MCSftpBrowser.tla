--------------------------- MODULE MCSftpBrowser ---------------------------
(* Small file trees and what the user does with them, for the run on SftpBrowser. *)
EXTENDS SftpBrowser

d == "d"
e == "e"
f == "f"
g == "g"
n == "n"
Root == <<>> :> "dir"
\* A folder with a folder, each with a file; at the server also a link.
Nested == Root @@ (<<d>> :> "dir") @@ (<<d, e>> :> "dir") @@ (<<d, e, f>> :> "file")
          @@ (<<d, g>> :> "file")
Linked == Nested @@ (<<d, n>> :> "link")
Flat == Root @@ (<<d>> :> "dir") @@ (<<f>> :> "file")

Acts(nav, down, up, edit, cancel, close) ==
    [nav |-> nav, down |-> down, up |-> up, edit |-> edit, cancel |-> cancel, close |-> close]
World(r, l, acts) == [remote |-> r, local |-> l, left |-> acts]

MCWorlds ==
    { World(Linked, Root, Acts(0, 2, 0, 0, 1, 0)),
      World(Root, Nested, Acts(0, 0, 1, 0, 1, 1)),
      World(Root, Root @@ (<<d>> :> "dir") @@ (<<d, e>> :> "dir"), Acts(0, 0, 1, 0, 0, 0)),
      World(Flat, Root @@ (<<f>> :> "file"), Acts(0, 1, 0, 1, 1, 0)),
      World(Flat, Root, Acts(1, 1, 0, 0, 1, 1)),
      World(Flat, Flat, Acts(0, 0, 1, 1, 0, 1)),
      World(Flat, Flat, Acts(2, 0, 0, 0, 0, 0)),
      World(Flat, Root, Acts(1, 0, 0, 1, 0, 0)),
      World(Root, Flat, Acts(0, 0, 1, 1, 1, 0)) }
MCHome == <<>>
MCNewNames == {n}
=============================================================================
