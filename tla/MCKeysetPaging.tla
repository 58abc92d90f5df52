--------------------------- MODULE MCKeysetPaging ----------------------------
(* KeysetPaging over a few ids, with limits below, at and above MaxLimit.  *)
EXTENDS KeysetPaging

\* An unreadable limit, a negative one, two good ones and one too many.
ClientLimits == {-1, 0, 1, 2, 3}
==============================================================================
