----------------------------- MODULE PublicErrors -----------------------------
(***************************************************************************)
(* api/errors.py: what a failure is called in public.  A failure is the     *)
(* class of the exception that was raised; "Unexpected" stands for every    *)
(* class that has no handler of its own.                                    *)
(***************************************************************************)
EXTENDS Integers

Public(status, code) == [status |-> status, code |-> code]

(* recommendation_error_details without its branch for an exhausted quota *)
QuotaIsRateLimit ==
  [Quota          |-> Public(429, "ai_rate_limited"),
   RateLimit      |-> Public(429, "ai_rate_limited"),
   Timeout        |-> Public(504, "ai_timeout"),
   Refusal        |-> Public(422, "ai_refusal"),
   InvalidOutput  |-> Public(502, "ai_invalid_output"),
   Authentication |-> Public(503, "ai_authentication_failed"),
   Configuration  |-> Public(503, "ai_not_configured"),
   Unavailable    |-> Public(503, "ai_unavailable")]

(* recommendation_error_details: the classes of RecommendationError *)
RecommendationErrorDetails ==
  [Quota          |-> Public(429, "ai_quota_exhausted"),
   RateLimit      |-> Public(429, "ai_rate_limited"),
   Timeout        |-> Public(504, "ai_timeout"),
   Refusal        |-> Public(422, "ai_refusal"),
   InvalidOutput  |-> Public(502, "ai_invalid_output"),
   Authentication |-> Public(503, "ai_authentication_failed"),
   Configuration  |-> Public(503, "ai_not_configured"),
   Unavailable    |-> Public(503, "ai_unavailable")]

RecommendationErrors == DOMAIN RecommendationErrorDetails

InternalError == Public(500, "internal_error")

(* validation_exception_handler, http_exception_handler and the two others; *)
(* an HTTPException is raised for its status                                *)
PublicError(class) ==
  CASE class \in RecommendationErrors -> RecommendationErrorDetails[class]
    [] class = "RequestValidation"    -> Public(422, "validation_error")
    [] class = "HTTP_422"             -> Public(422, "http_422")
    [] class = "HTTP_503"             -> Public(503, "http_503")
    [] OTHER                          -> InternalError
=============================================================================
