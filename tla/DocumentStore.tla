---------------------------- MODULE DocumentStore ----------------------------
(***************************************************************************)
(* The conditional document store behind the control API (store.ts).  get  *)
(* and list read consistently; put writes a whole document if the stored   *)
(* version is the expected one and throws StoreConflict otherwise.         *)
(*                                                                         *)
(* A document is a record with a version.  Version 0 stands for a document *)
(* that does not exist, which is what a put without expectedVersion wants. *)
(***************************************************************************)
EXTENDS Naturals

\* A put made after reading the document as it was in `read` is carried out.
Unchanged(stored, read) == stored.version = read.version

\* The document that such a put stores: the copy with its changes.
Updated(read) == [read EXCEPT !.version = @ + 1]
=============================================================================
