------------------------------ MODULE Options ------------------------------
(* An optional value: nothing, or one thing.                                *)

None == <<>>
Some(x) == <<x>>
Only(o) == o[1]
=============================================================================
