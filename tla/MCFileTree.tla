----------------------------- MODULE MCFileTree -----------------------------
(* Small instances of FileTree for TLC. *)
EXTENDS FileTree, TLC

CONSTANTS p, q   \* the two requests that may be in flight

Clients(first, second) == [r \in Op |-> IF r = p THEN first ELSE second]

Deployment(kinds, imported, derive, crashes) ==
  [kinds |-> kinds, imported |-> imported, derive |-> derive, crashes |-> crashes]

\* One request moves files while the tree around them changes.
Moving   == {Deployment(Clients({"folder", "upload", "move"}, {"folder", "delete", "purge"}),
                        {}, FALSE, TRUE)}
Emptying == {Deployment(Clients({"folder", "move"}, {"recycle", "empty"}),
                        {}, FALSE, TRUE)}
\* Purges of rows that share an imported object, next to uploads.
Sharing  == {Deployment(Clients({"delete", "purge"}, {"upload", "purge"}), {f, g}, FALSE, TRUE) :
               f, g \in File}
\* Derivatives come and go with their parents.
Deriving == {Deployment(Clients({"upload", "delete"}, {"purge"}), {}, TRUE, TRUE)}
\* One client and its recycle bin.
Binning  == {Deployment(Clients({"folder", "recycle", "restore", "empty"}, {}),
                        {}, FALSE, FALSE)}
\* A sister service moves files through gRPC.
Updating == {Deployment(Clients({"folder", "update"}, {"delete"}), {}, FALSE, FALSE)}
\* Two clients move folders.
TwoMovers == {Deployment(Clients({"folder", "move"}, {"move"}), {}, FALSE, FALSE)}

AllWorlds == UNION {Moving, Emptying, Sharing, Deriving, Binning, Updating}

Ones == {{f} : f \in File}
OnesAndPairs == {{f, g} : f, g \in File}

Symmetry == Permutations(File) \cup Permutations(Object)
=============================================================================
