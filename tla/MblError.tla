------------------------------ MODULE MblError ------------------------------
(***************************************************************************)
(* The error codes of mbl-cloud-client (MblError.h), the codes it gives to *)
(* the errors of the Pelion client library, and the names it prints.  The  *)
(* library's own codes are modelled by their names.                        *)
(***************************************************************************)
EXTENDS Naturals, Sequences, SequencesExt

GeneralErrors == <<"None", "Unknown", "LogInitFopen", "LogInitMutexCreate", "SignalsInitSigaction",
             "DeviceUnregistered", "ShutdownRequested">>

ConnectErrors == <<"ConnectAlreadyExists", "ConnectBootstrapFailed", "ConnectInvalidParameters",
             "ConnectNotRegistered", "ConnectTimeout", "ConnectNetworkError",
             "ConnectResponseParseFailed", "ConnectUnknownError", "ConnectMemoryConnectFail",
             "ConnectNotAllowed", "ConnectSecureConnectionFailed", "ConnectDnsResolvingFailed",
             "ConnectorFailedToReadCredentials", "ConnectorInvalidCredentials",
             "ConnectorFailedToStoreCredentials">>

UpdateErrors == <<"UpdateWarningCertificateNotFound", "UpdateWarningIdentityNotFound",
            "UpdateWarningCertificateInvalid", "UpdateWarningSignatureInvalid",
            "UpdateWarningVendorMismatch", "UpdateWarningClassMismatch",
            "UpdateWarningDeviceMismatch", "UpdateWarningURINotFound",
            "UpdateWarningRollbackProtection", "UpdateWarningAuthorizationRejected",
            "UpdateWarningAuthorizationUnavailable", "UpdateWarningUnknown",
            "UpdateErrorWriteToStorage", "UpdateWarningNoActionRequired",
            "UpdateErrorUserActionRequired", "UpdateFatalRebootRequired",
            "UpdateErrorInvalidHash", "UpdateWarningBadKeytable",
            "UpdateCertificateInsertion", "UpdateErrorConnection">>

EnrollmentErrors == <<"EnrollmentErrorBase", "EnrollmentErrorEnd">>

\* Each group of codes starts at a multiple of 256.
Groups == <<GeneralErrors, ConnectErrors, UpdateErrors, EnrollmentErrors>>

\* enum Error::Type: the code of each name.
Error ==
  [name \in UNION {ToSet(Groups[g]) : g \in DOMAIN Groups} |->
     LET g == CHOOSE g \in DOMAIN Groups : name \in ToSet(Groups[g])
         n == CHOOSE n \in DOMAIN Groups[g] : Groups[g][n] = name
     IN  256 * (g - 1) + n - 1]

\* The errors that the client library hands to handle_error: the enumerators of
\* MbedCloudClient::Error, and a number that is none of them (the handler casts
\* an int).
CloudClientErrors == {"ConnectErrorNone", "NoEnumerator"} \cup ToSet(ConnectErrors)
                       \cup ToSet(UpdateErrors) \cup ToSet(EnrollmentErrors)

\* The cases of the switch in CloudClientError_to_MblError: enumerators of the
\* library, and of Error::Type.
Translations ==
  [ConnectErrorNone |-> "None", ConnectAlreadyExists |-> "ConnectAlreadyExists",
   ConnectBootstrapFailed |-> "ConnectBootstrapFailed",
   ConnectInvalidParameters |-> "ConnectInvalidParameters",
   ConnectNotRegistered |-> "ConnectNotRegistered", ConnectTimeout |-> "ConnectTimeout",
   ConnectNetworkError |-> "ConnectNetworkError",
   ConnectResponseParseFailed |-> "ConnectResponseParseFailed",
   ConnectUnknownError |-> "ConnectUnknownError",
   ConnectMemoryConnectFail |-> "ConnectMemoryConnectFail",
   ConnectNotAllowed |-> "ConnectNotAllowed",
   ConnectSecureConnectionFailed |-> "ConnectSecureConnectionFailed",
   ConnectDnsResolvingFailed |-> "ConnectDnsResolvingFailed",
   ConnectorFailedToReadCredentials |-> "ConnectorFailedToReadCredentials",
   ConnectorInvalidCredentials |-> "ConnectorInvalidCredentials",
   ConnectorFailedToStoreCredentials |-> "ConnectorFailedToStoreCredentials",
   UpdateWarningCertificateNotFound |-> "UpdateWarningCertificateNotFound",
   UpdateWarningIdentityNotFound |-> "UpdateWarningIdentityNotFound",
   UpdateWarningCertificateInvalid |-> "UpdateWarningCertificateInvalid",
   UpdateWarningSignatureInvalid |-> "UpdateWarningSignatureInvalid",
   UpdateWarningVendorMismatch |-> "UpdateWarningVendorMismatch",
   UpdateWarningClassMismatch |-> "UpdateWarningClassMismatch",
   UpdateWarningDeviceMismatch |-> "UpdateWarningDeviceMismatch",
   UpdateWarningURINotFound |-> "UpdateWarningURINotFound",
   UpdateWarningRollbackProtection |-> "UpdateWarningRollbackProtection",
   UpdateWarningAuthorizationRejected |-> "UpdateWarningAuthorizationRejected",
   UpdateWarningAuthorizationUnavailable |-> "UpdateWarningAuthorizationUnavailable",
   UpdateWarningUnknown |-> "UpdateWarningUnknown",
   UpdateErrorWriteToStorage |-> "UpdateErrorWriteToStorage",
   UpdateWarningNoActionRequired |-> "UpdateWarningNoActionRequired",
   UpdateErrorUserActionRequired |-> "UpdateErrorUserActionRequired",
   UpdateFatalRebootRequired |-> "UpdateFatalRebootRequired",
   UpdateErrorInvalidHash |-> "UpdateErrorInvalidHash",
   UpdateWarningBadKeytable |-> "UpdateWarningBadKeytable",
   UpdateCertificateInsertion |-> "UpdateCertificateInsertion",
   UpdateErrorConnection |-> "UpdateErrorConnection",
   EnrollmentErrorBase |-> "EnrollmentErrorBase", EnrollmentErrorEnd |-> "EnrollmentErrorEnd"]

\* The cases of the switch in MblError_to_str: enumerators, and what is printed,
\* with _ for a blank.
Strings ==
  [None |-> "None", Unknown |-> "Unknown", LogInitFopen |-> "fopen_failed",
   LogInitMutexCreate |-> "Failed_to_create_mutex_for_logging",
   SignalsInitSigaction |-> "Failed_to_register_signal_handler",
   DeviceUnregistered |-> "Device_became_unregistered", ShutdownRequested |-> "Shutdown_requested",
   ConnectAlreadyExists |-> "ConnectAlreadyExists",
   ConnectBootstrapFailed |-> "ConnectBootstrapFailed",
   ConnectInvalidParameters |-> "ConnectInvalidParameters",
   ConnectNotRegistered |-> "ConnectNotRegistered", ConnectTimeout |-> "ConnectTimeout",
   ConnectNetworkError |-> "ConnectNetworkError",
   ConnectResponseParseFailed |-> "ConnectResponseParseFailed",
   ConnectUnknownError |-> "ConnectUnknownError",
   ConnectMemoryConnectFail |-> "ConnectMemoryConnectFail",
   ConnectNotAllowed |-> "ConnectNotAllowed",
   ConnectSecureConnectionFailed |-> "ConnectSecureConnectionFailed",
   ConnectDnsResolvingFailed |-> "ConnectDnsResolvingFailed",
   ConnectorFailedToReadCredentials |-> "ConnectorFailedToReadCredentials",
   ConnectorInvalidCredentials |-> "ConnectorInvalidCredentials",
   ConnectorFailedToStoreCredentials |-> "ConnectorFailedToStoreCredentials",
   UpdateWarningCertificateNotFound |-> "UpdateWarningCertificateNotFound",
   UpdateWarningIdentityNotFound |-> "UpdateWarningIdentityNotFound",
   UpdateWarningCertificateInvalid |-> "UpdateWarningCertificateInvalid",
   UpdateWarningSignatureInvalid |-> "UpdateWarningSignatureInvalid",
   UpdateWarningVendorMismatch |-> "UpdateWarningVendorMismatch",
   UpdateWarningClassMismatch |-> "UpdateWarningClassMismatch",
   UpdateWarningDeviceMismatch |-> "UpdateWarningDeviceMismatch",
   UpdateWarningURINotFound |-> "UpdateWarningURINotFound",
   UpdateWarningRollbackProtection |-> "UpdateWarningRollbackProtection",
   UpdateWarningAuthorizationRejected |-> "UpdateWarningAuthorizationRejected",
   UpdateWarningAuthorizationUnavailable |-> "UpdateWarningAuthorizationUnavailable",
   UpdateWarningUnknown |-> "UpdateWarningUnknown",
   UpdateErrorWriteToStorage |-> "UpdateErrorWriteToStorage",
   UpdateWarningNoActionRequired |-> "UpdateWarningNoActionRequired",
   UpdateErrorUserActionRequired |-> "UpdateErrorUserActionRequired",
   UpdateFatalRebootRequired |-> "UpdateFatalRebootRequired",
   UpdateErrorInvalidHash |-> "UpdateErrorInvalidHash",
   UpdateWarningBadKeytable |-> "UpdateWarningBadKeytable",
   UpdateCertificateInsertion |-> "UpdateCertificateInsertion",
   UpdateErrorConnection |-> "UpdateErrorConnection",
   EnrollmentErrorBase |-> "EnrollmentErrorBase", EnrollmentErrorEnd |-> "EnrollmentErrorEnd"]

\* Fault: two cases are crossed.
CloudClientError_to_MblError_Crossed(error) ==
  CASE error = "UpdateWarningVendorMismatch" -> Error["UpdateWarningClassMismatch"]
    [] error = "UpdateWarningClassMismatch"  -> Error["UpdateWarningVendorMismatch"]
    [] OTHER -> Error[IF error \in DOMAIN Translations THEN Translations[error] ELSE "Unknown"]

\* The code for an error of the library.
CloudClientError_to_MblError(error) ==
  Error[IF error \in DOMAIN Translations THEN Translations[error] ELSE "Unknown"]

\* What is printed for a code.
MblError_to_str(code) ==
  IF \E label \in DOMAIN Strings : Error[label] = code
  THEN Strings[CHOOSE label \in DOMAIN Strings : Error[label] = code]
  ELSE "Unrecognized_error_code"
=============================================================================
