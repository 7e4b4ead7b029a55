------------------------------- MODULE AtRest -------------------------------
(***************************************************************************)
(* Secrets at rest: the gorm hooks of database.Host and database.Volume,   *)
(* which encrypt a secret before a save and decrypt it after a save and    *)
(* after a read, and how often gorm calls them for one statement.          *)
(*                                                                         *)
(* The configuration requires an encryption key, so the hooks are never    *)
(* idle.  A secret is the value somebody chose and the number of times it  *)
(* is encrypted.                                                           *)
(***************************************************************************)
EXTENDS Naturals

CONSTANTS
  Keys,           \* the secrets an administrator may choose
  NoKey,          \* the empty string
  MaxLayers       \* layers of encryption are counted up to this bound

ASSUME KeysAssumption == NoKey \notin Keys
ASSUME LayersAssumption == MaxLayers \in Nat /\ MaxLayers >= 3

Secret == [value : Keys \cup {NoKey}, layers : 0 .. MaxLayers]

Plain(k) == [value |-> k, layers |-> 0]
Empty    == Plain(NoKey)

encryptString(s) ==
  [s EXCEPT !.layers = IF @ = MaxLayers THEN @ ELSE @ + 1]

(* What is not a ciphertext under the key fails to decrypt. *)
Decrypts(s)      == s.layers > 0
decryptString(s) == [s EXCEPT !.layers = @ - 1]

(* process: every hook skips an empty secret. *)
Encrypt(s)  == IF s.value = NoKey THEN s ELSE encryptString(s)
Readable(s) == s.value = NoKey \/ Decrypts(s)
Decrypt(s)  == IF s.value = NoKey THEN s ELSE decryptString(s)

(* A create runs BeforeSave and AfterSave; a read runs AfterFind. *)
Created(s) == Encrypt(s)
Found(s)   == Decrypt(s)

(* Mutant: BeforeSave alone runs before the statement. *)
BeforeUpdateOnce(s) == Encrypt(s)

(* An update runs BeforeSave and BeforeUpdate on the model, then AfterSave and
   AfterUpdate: two layers on, two layers off. *)
BeforeUpdate(s) == Encrypt(Encrypt(s))

AfterUpdateReports(s) == ~Readable(s) \/ ~Readable(Decrypt(s))

(* Updates(v), v the model and the source at once: the column gets what the
   hooks made of v's secret, unless that is empty. *)
UpdatedBy(s, column) == IF s.value = NoKey THEN column ELSE BeforeUpdate(s)

(* Mutant: the hooks that follow the statement report nothing. *)
ReportsNothing(s) == FALSE

(* Model(&existing).Updates(host): the hooks run on the model, and the statement
   writes the source's secret k as it is.  A column of its own is skipped when k
   is empty; the password lies in the JSON of the connection, which is written as
   a whole, so that an empty one clears it. *)
SourceColumn(k, column) == IF k = NoKey THEN column ELSE Plain(k)
SourceJSON(k)           == Plain(k)

(* What the statement has written is in the model too when the last hooks decrypt
   it; s is the model's secret from before. *)
HooksReport(s) == AfterUpdateReports(s)

SourceReports(s, k) ==
  HooksReport(IF k = NoKey THEN BeforeUpdate(s) ELSE Plain(k))
JSONReports(k) == HooksReport(SourceJSON(k))

=============================================================================
