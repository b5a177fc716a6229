---------------------------- MODULE MCFileStore ----------------------------
(***************************************************************************)
(* FileStore with what its callers upload: plain files of both lengths,    *)
(* and one named *.json of each kind.                                      *)
(***************************************************************************)
EXTENDS FileStore
FourUploads == {<<1, "plain">>, <<2, "plain">>, <<2, "json">>, <<2, "metadata">>}
=============================================================================
