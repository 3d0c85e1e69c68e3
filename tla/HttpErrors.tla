------------------------------ MODULE HttpErrors ------------------------------
(***************************************************************************)
(* The HTTP status of every answer, as src/errors/error-codes.ts and       *)
(* src/utils/response.ts give it.  An answer of a handler is one of the    *)
(* error codes or OK; its body, headers and request id are left out.       *)
(***************************************************************************)
EXTENDS Naturals

Unauthorized == {"AUTH_001", "AUTH_002", "AUTH_009", "AUTH_010"}
BadRequest == {"AUTH_007", "AUTH_011", "AUTH_012"}
Unavailable == {"AUTH_004", "AUTH_005"}
ServerErrors == {"AUTH_003", "AUTH_008"}

ErrorCodes == Unauthorized \cup BadRequest \cup Unavailable \cup ServerErrors
                  \cup {"AUTH_006"}

\* ErrorDefinitions[code].httpStatus
HttpStatus(code) ==
    CASE code \in Unauthorized -> 401
      [] code \in BadRequest -> 400
      [] code \in Unavailable -> 503
      [] code \in ServerErrors -> 500
      [] code = "AUTH_006" -> 429

\* createSuccessResponse, createTokenResponse: always 200.
OK == [code |-> "OK", status |-> 200]

\* createStructuredErrorResponse, createStructuredErrorWithMessage: the
\* status of the problem details is the one of the code.
ErrorResponse(code) == [code |-> code, status |-> HttpStatus(code)]

Responses == {OK} \cup {ErrorResponse(code) : code \in ErrorCodes}
=============================================================================
