---------------------------- MODULE ManifestPlan ----------------------------
(***************************************************************************)
(* Manifests, update plans and their verification                          *)
(* (launcher/update-core/src/lib.rs).                                      *)
(*                                                                         *)
(* A manifest and a directory are both functions from paths to contents:   *)
(* the code compares two files by their SHA-256 and size, so a content     *)
(* stands for one (hash, size) pair and NoFile for an absent entry.  Paths *)
(* stands for manifest_path_key's image, the paths after the platform's    *)
(* case folding, which is what makes a manifest a function.                *)
(***************************************************************************)
CONSTANTS Paths,     \* the paths an update layer may own
          Contents,  \* the distinguishable file contents
          NoFile     \* what a manifest or a directory has where there is no file

ASSUME NoFileIsNoContent == NoFile \notin Contents

File == Contents \cup {NoFile}
Manifests == [Paths -> File]
EmptyManifest == [p \in Paths |-> NoFile]

Listed(manifest) == {p \in Paths : manifest[p] # NoFile}

(* diff: a file is changed when it is new or its content differs; it is    *)
(* removed when the local manifest lists it and the target does not.       *)
Diff(local, remote) ==
    [changed |-> {p \in Listed(remote) : local[p] # remote[p]},
     removed |-> Listed(local) \ Listed(remote)]

(* diff_verified: diff, and every listed file whose bytes in the directory *)
(* are not the listed ones.                                                *)
DiffVerified(local, remote, files) ==
    LET plan == Diff(local, remote)
    IN  [plan EXCEPT !.changed =
            @ \cup {p \in Listed(remote) : files[p] # remote[p]}]

(* verify_install: every file the manifest lists is there with its bytes;  *)
(* a file the manifest does not list is not looked at.                     *)
VerifyInstall(files, expected) ==
    \A p \in Listed(expected) : files[p] = expected[p]

(* What a directory holds once a plan has been carried out on it.          *)
Carried(files, target, changed, removed) ==
    [p \in Paths |-> IF p \in changed THEN target[p]
                     ELSE IF p \in removed THEN NoFile
                     ELSE files[p]]
=============================================================================
