---------------------------- MODULE BasketErrors ----------------------------
(***************************************************************************)
(* The errors the layers of the basket-service return, by the gRPC code    *)
(* its handlers answer them with.  "nil" is no error; "lost" is what a     *)
(* client sees when the process dies under it.                             *)
(***************************************************************************)
ArgumentErrors == {"ErrInvalidQuantity", "ErrInvalidCurrencyCode"}
NotFoundErrors == {"ErrBasketNotFound", "ErrBasketItemNotFound",
                   "ErrProductNotFound", "ErrVariantNotFound"}
PreconditionErrors == {"ErrProductNotSellable", "ErrProductVariantMismatch",
                       "ErrBasketCurrencyMismatch", "ErrBasketNotModifiable"}
OtherErrors == {"ErrCouldNotAllocateItemID", "catalog validation failed",
                "statement failed"}

Errors == ArgumentErrors \cup NotFoundErrors \cup PreconditionErrors
            \cup OtherErrors \cup {"ErrCatalogServiceUnavailable"}

\* Wrong on purpose: a failed statement is answered as a retryable outage.
GrpcCodeOutage(err) ==
  CASE err = "nil" -> "OK"
    [] err \in ArgumentErrors -> "InvalidArgument"
    [] err \in NotFoundErrors -> "NotFound"
    [] err \in PreconditionErrors -> "FailedPrecondition"
    [] err = "lost" -> "Lost"
    [] OTHER -> "Unavailable"

GrpcCode(err) ==
  CASE err = "nil" -> "OK"
    [] err \in ArgumentErrors -> "InvalidArgument"
    [] err \in NotFoundErrors -> "NotFound"
    [] err \in PreconditionErrors -> "FailedPrecondition"
    [] err = "ErrCatalogServiceUnavailable" -> "Unavailable"
    [] err = "lost" -> "Lost"
    [] OTHER -> "Internal"

\* What ValidateProductVariant of the catalog client can fail with.
CatalogErrors == {"ErrProductNotFound", "ErrVariantNotFound", "ErrProductVariantMismatch",
                  "ErrProductNotSellable", "ErrBasketNotModifiable",
                  "ErrCatalogServiceUnavailable", "catalog validation failed"}

\* The codes after which a client may take its command as not carried out.
DefiniteCodes == {"InvalidArgument", "NotFound", "FailedPrecondition", "Unavailable"}
=============================================================================
