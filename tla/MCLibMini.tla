----------------------------- MODULE MCLibMini -----------------------------
(* SIGINT and the largest standard signal; an error of the table, the one  *)
(* of an interrupted call and one beyond the table (ENOTEMPTY).            *)
EXTENDS LibMini

MCSig == {2, 31}
MCErrors == {EINTR, 39}
MCMasks == {{}}
=============================================================================
