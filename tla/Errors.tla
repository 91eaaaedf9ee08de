------------------------------- MODULE Errors -------------------------------
(***************************************************************************)
(* What a client is answered when a hook or a handler throws               *)
(* (lib/errors): AppErrors by class, validation errors of Fastify, known   *)
(* Prisma errors by code, and everything else.  Of the problem body only   *)
(* its status and whether the message and the details are in it count.     *)
(***************************************************************************)
EXTENDS Integers

AppErrorStatus ==
  [BadRequestError |-> 400, ValidationError |-> 400, UnauthorizedError |-> 401,
   ForbiddenError |-> 403, NotFoundError |-> 404, ConflictError |-> 409,
   UnsupportedMediaTypeError |-> 415, UnprocessableEntityError |-> 422,
   TooManyRequestsError |-> 429, InternalError |-> 500, ServiceUnavailableError |-> 503,
   GatewayTimeoutError |-> 504]

\* IdempotencyKeyInvalidError and IdempotencyKeyConflictError.
IdempotencyKeyInvalid == "BadRequestError"
IdempotencyKeyConflict == "UnprocessableEntityError"

PrismaCodes == {"P2002", "P2025", "P2003", "P2024"}

MapPrismaError(code) ==
  CASE code = "P2002" -> "ConflictError"
    [] code = "P2025" -> "NotFoundError"
    [] code = "P2003" -> "BadRequestError"
    [] code = "P2024" -> "ServiceUnavailableError"

\* thrown: the class of an AppError, "validation", a Prisma code, or another error.
ResolveAppError(thrown) ==
  IF thrown \in DOMAIN AppErrorStatus THEN thrown
  ELSE IF thrown = "validation" THEN "ValidationError"
  ELSE IF thrown \in PrismaCodes THEN MapPrismaError(thrown)
  ELSE "InternalError"

\* The handler of setErrorHandler: expose is the status below 500.
ToProblem(class) == [status |-> AppErrorStatus[class], exposed |-> AppErrorStatus[class] < 500]

StatusOfThrown(thrown) == ToProblem(ResolveAppError(thrown)).status

=============================================================================
