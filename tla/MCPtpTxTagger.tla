---------------------------- MODULE MCPtpTxTagger ----------------------------
(* Two table entries and four tags: an entry is reused after two timestamped *)
(* frames and a tag after four, so that returns meet reuse in every order.   *)
EXTENDS PtpTxTagger
=============================================================================
