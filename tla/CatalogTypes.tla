---------------------------- MODULE CatalogTypes ----------------------------
(***************************************************************************)
(* What the RPCs of the catalog-service share: the lifecycle statuses of   *)
(* its rows, and the gRPC codes its handlers answer errors with.  Errors   *)
(* of the service without a name of their own are one value each.          *)
(***************************************************************************)
LifecycleStatus == {"draft", "active", "inactive", "archived"}

\* mapServiceError of the catalog-service.
CatalogCode(err) ==
  CASE err = "nil" -> "OK"
    [] err \in {"ErrInvalidProductID", "ErrInvalidVariantID", "ErrInvalidCategoryID",
                "ErrInvalidPageSize", "ErrInvalidPageToken"} -> "InvalidArgument"
    [] err \in {"ErrProductNotFound", "ErrProductVariantNotFound"} -> "NotFound"
    [] err \in {"ErrProductVariantProductMismatch", "ErrProductNotSellable",
                "ErrProductVariantNotSellable"} -> "FailedPrecondition"
    [] OTHER -> "Internal"
=============================================================================
