------------------------------ MODULE MCAssets ------------------------------
(***************************************************************************)
(* A file to upload and the folder it goes to, which clients may name too; *)
(* and a receipt image, which is put elsewhere.                            *)
(***************************************************************************)
EXTENDS Assets, TLC
CONSTANTS r1, r2, file, folder, image

FolderOf == (file :> {folder}) @@ (image :> {})
=============================================================================
