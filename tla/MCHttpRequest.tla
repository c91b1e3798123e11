---------------------------- MODULE MCHttpRequest ----------------------------
(* HttpRequest with the constants of client.go and one status for every case *)
(* of doJSON, at both sides of the boundaries it compares with.              *)
EXTENDS HttpRequest

MCStatuses == {200, 299, 300, 399, 400, 401, 403, 429, 499, 500, 502, 503, 504}
MCRetryAfters == {-1, 0, 300, 301}
=============================================================================
