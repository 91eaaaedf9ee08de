------------------------------ MODULE ObjectKeys ------------------------------
(***************************************************************************)
(* Keys of uploaded images, donation/{entity}/{id}/{purpose}.{ext}: which  *)
(* one GET /cms/uploads/presign signs (routes/cms/uploads.ts, lib/s3) and  *)
(* which ones the catalogue's writers accept for a row.  A key is the      *)
(* record of its segments; an id that is no UUID is NoUuid.                *)
(***************************************************************************)
EXTENDS Naturals

CONSTANT NoUuid

ASSUME NoUuidAssumption == NoUuid \notin Nat  \* in the property ids are numbers

UploadEntities == {"charities", "donation-projects", "sale-items"}
Purposes == {"logo", "cover"}
AllowedExts == {"png", "jpg", "webp", "gif"}

\* image/jpeg has one canonical extension; other types are not allowed.
AllowedContentTypes == {"image/png", "image/jpeg", "image/webp", "image/gif"}

ContentTypeToExt(type) ==
  CASE type = "image/png" -> "png"
    [] type = "image/jpeg" -> "jpg"
    [] type = "image/webp" -> "webp"
    [] type = "image/gif" -> "gif"

BuildKey(entity, id, purpose, ext) ==
  [entity |-> entity, id |-> id, purpose |-> purpose, ext |-> ext]

\* Old objects may end in .jpeg: read, never built.
IsValidObjectKey(key) ==
  /\ key.entity \in UploadEntities /\ key.id # NoUuid
  /\ key.purpose \in Purposes /\ key.ext \in AllowedExts \cup {"jpeg"}

\* Faulty variant: the id segment is not compared.
BoundToEntity(key, entity, expectedIds) == key.entity = entity

\* assertS3KeyBinding: a PATCH expects the row's own id, a POST (whose row has
\* none yet) takes any.  The purpose segment is not compared with the column.
BoundTo(key, entity, expectedIds) == key.entity = entity /\ key.id \in expectedIds

Acceptable(key, entity, expectedIds) ==
  IsValidObjectKey(key) /\ BoundTo(key, entity, expectedIds)

\* The presign handler: the size, the row, then the key. status is the answer's.
Presign(entity, id, purpose, type, size, maxBytes, rows) ==
  LET key == BuildKey(entity, id, purpose, ContentTypeToExt(type))
  IN  [status |-> IF size \notin 1 .. maxBytes THEN 400
                  ELSE IF id \notin rows THEN 404
                  ELSE 200,
       key |-> key]

-----------------------------------------------------------------------------
(* Property                                                                *)

\* The two halves of an upload fit: the key signed for a row is accepted by a
\* PATCH of that row, whatever the image's type, and by no PATCH of another.
SignedKeysFit ==
  \A entity, other \in UploadEntities, id, row \in 1 .. 2, purpose \in Purposes,
     type \in AllowedContentTypes, size \in 0 .. 3, rows \in SUBSET (1 .. 2) :
    LET answer == Presign(entity, id, purpose, type, size, 2, rows)
    IN  answer.status = 200 =>
          /\ id \in rows
          /\ Acceptable(answer.key, other, {row}) <=> other = entity /\ row = id

=============================================================================
